---- MODULE Spec2Model ----
(***************************************************************************)
(* Order lifecycle of the 69trading bot: the in-memory order registry      *)
(* (trading/order_manager.py), the user-data stream handler                *)
(* (api/websocket_handler.py), the cancel route (web/routes.py), the       *)
(* timeout sweeper (trading/order_timeout_manager.py) and the position     *)
(* tracker's average-cost computation (trading/position_manager.py).       *)
(*                                                                         *)
(* Client order ids are sequences of the '_'-separated parts of the id:    *)
(*   entry  <<strategy[:3], symbol[:6], side+timestamp, "1">>              *)
(*   exit   entry \o <<n, "T">>  (take-profit)  or  entry \o <<n, "S">>    *)
(* where n stands for the 5-digit timestamp part of the exit id; the n-th  *)
(* exit order placed for an entry id gets n (placements in distinct        *)
(* seconds).                                                               *)
(*                                                                         *)
(* Registry records keep the fields the handlers branch on: status,        *)
(* tp_placed, sl_placed, tp_client_id, sl_client_id, price, executed_qty,  *)
(* is_add_position, actual_fill_price.  0 stands for None.  waiting_for_api_response is       *)
(* written but never read by any branch and is left out.                   *)
(***************************************************************************)
EXTENDS Integers, Sequences, FiniteSets, TLC

\* ---------------------------------------------------------------- bounds
MaxExits == 2        \* exit orders the gateway accepts in a run

\* ------------------------------------------------------------- constants
ENABLE_STOP_LOSS == TRUE
SystemPrefix == "V69"

LimitPx == 100      \* limit price "p" of an event / price of a LIMIT signal
AvgPx == 101        \* average fill price "ap"
LastPx == 102       \* last trade price "L"
Bad == -1           \* a price string float() cannot parse
NaN == -2           \* the price string "nan": float() parses it, and every
                    \* comparison with the result is false
NegPx == -5         \* a negative price

Symbols == {"BTCUSD", "ETHUSD"}
\* the signals considered: strategy_name[:3], symbol[:6], side char +
\* timestamp % 10000 (two signals with the same three parts get the same id)
Signals == {<<"V69", "BTCUSD", "B1">>}

\* utils.helpers.generate_order_id (counter is always 1)
generate_order_id(strategy, symbol, sidets) == <<strategy, symbol, sidets, "1">>

EntryIds == {generate_order_id(g[1], g[2], g[3]) : g \in Signals}
\* orders placed by hand on the exchange account (one id ends with 'T')
ManualIds == {<<"man", "BTCUSD", "B1", "1">>, <<"man", "BTCUSD", "B1", "T">>}

\* the price fields (ap, L, p) of the events considered
PriceCases == {<<AvgPx, LastPx, LimitPx>>, <<0, 0, 0>>, <<Bad, 0, LimitPx>>}

\* entries are LIMIT GTC or MARKET orders: they fill or are canceled
EntryStatuses == {"NEW", "PARTIALLY_FILLED", "FILLED", "CANCELED"}

\* orders, exch, exits, http, lastOp: the order lifecycle (specification Spec)
\* tpCalc: one take-profit offset computation (specification SpecTp)
\* pm, avgCall: the position tracker's memory and its last call (SpecAvg)
\* swCheck: one timeout test of the sweeper (SpecTimeout)
\* keys, cxl: the registry's insertion order and the last cancel-for-symbol
\* call (SpecCancel, which runs on orders and exits as well)
\* wsm: the WebSocketManager's start loop (SpecStart)
\* iso: the stream thread and the sweeper thread as loops that survive the
\* exceptions raised inside them (SpecIsolation)
\* gen: the last two client order ids generated (SpecIds)
\* race: one submission and the handling of its FILLED event, step by step
\* (SpecRace)
\* guard: processing_orders and the invocations of handle_order_filled that
\* take and release it (SpecGuard)
VARIABLES orders, exch, exits, http, lastOp, tpCalc, pm, avgCall, swCheck,
          keys, cxl, wsm, iso, gen, race, guard
vars == <<orders, exch, exits, http, lastOp, tpCalc, pm, avgCall, swCheck,
          keys, cxl, wsm, iso, gen, race, guard>>
lifecycleVars == <<orders, exch, exits, http, lastOp>>
sweepVars == <<swCheck>>
cancelVars == <<keys, cxl>>
calcExceptRace ==
    <<tpCalc, pm, avgCall, sweepVars, cancelVars, wsm, iso, gen, guard>>
calcVars == <<calcExceptRace, race>>

\* ------------------------------------------------------------ id helpers
Last(id) == id[Len(id)]
\* client_order_id.endswith("T") / endswith("S")
EndsWith(id, c) == Last(id) = c
\* a prefix test that lets every id through
IsSystemOrder_any(id) == TRUE

\* client_order_id.startswith('V69_')
IsSystemOrder(id) == id[1] = SystemPrefix
SymbolOf(id) == id[2]
\* the entry id an exit id was derived from
EntryPart(xid) == SubSeq(xid, 1, 4)
IsExitId(id) == Len(id) = 6

ExitsOf(ex, e, k) == {x \in DOMAIN ex : EntryPart(x) = e /\ Last(x) = k}
OpenExitsOf(ex, e, k) == {x \in ExitsOf(ex, e, k) : ex[x] = "open"}

\* _generate_tp_order_id / _generate_sl_order_id
GenerateTpOrderId(ex, e) == e \o <<Cardinality(ExitsOf(ex, e, "T")) + 1, "T">>
GenerateSlOrderId(ex, e) == e \o <<Cardinality(ExitsOf(ex, e, "S")) + 1, "S">>

\* -------------------------------------------------------------- gateway
\* binance_client.place_order through OrderManager.create_order:
\* ok is the gateway's answer (order_result is not None)
CreateOrder(ex, xid, ok) == IF ok THEN ex @@ (xid :> "open") ELSE ex

\* binance_client.cancel_order: succeeds only for an order that is open, and
\* only when the request gets through (net)
CancelResult(ex, xid, net) == net /\ xid \in DOMAIN ex /\ ex[xid] = "open"
CancelOrder(ex, xid, net) ==
    IF CancelResult(ex, xid, net) THEN [ex EXCEPT ![xid] = "canceled"] ELSE ex

\* binance_client.get_all_open_orders: _sign_request is handed the query
\* string instead of the parameter dict, raises TypeError, and the method
\* returns [] from its except clause
GetAllOpenOrders(ex) == {}


\* ---------------------------------------------------------------- records
NoId == <<>>

\* the record handle_new_position_order writes before the gateway call
PendingRecord(price) ==
    [status |-> "PENDING", tp_placed |-> FALSE, sl_placed |-> FALSE,
     tp_client_id |-> NoId, sl_client_id |-> NoId, price |-> price,
     executed_qty |-> 0, is_add_position |-> FALSE, actual_fill_price |-> 0]

\* the record on_message synthesizes from the event payload
StreamRecord(price) ==
    [status |-> "FILLED", tp_placed |-> FALSE, sl_placed |-> FALSE,
     tp_client_id |-> NoId, sl_client_id |-> NoId, price |-> price,
     executed_qty |-> 0, is_add_position |-> FALSE, actual_fill_price |-> 0]

\* the record handle_order_filled creates when the id is unknown
EarlyFillRecord(price, isAdd) ==
    [status |-> "FILLED", tp_placed |-> FALSE, sl_placed |-> FALSE,
     tp_client_id |-> NoId, sl_client_id |-> NoId, price |-> price,
     executed_qty |-> 0, is_add_position |-> isAdd, actual_fill_price |-> 0]

\* cumulative filled quantity "z" the exchange reports with a status
ExecQty(X) == IF X = "FILLED" THEN 2 ELSE IF X = "PARTIALLY_FILLED" THEN 1 ELSE 0

\* ----------------------------------------------------------- OrderManager
\* st is [orders, exits, calls, rechecks]: the registry, the exit orders at
\* the exchange, the gateway requests sent so far by the running handler and
\* the number of times it looked an unknown id up again.
\* gw is what happens around the handler while it runs: gw.tp / gw.sl answer
\* the take-profit / stop-loss placement, gw.net is the set of order ids
\* whose cancel request gets through, gw.exc (read by handle_tp_filled and
\* handle_sl_filled only) the set of order ids whose cancel request raises
\* (requests.delete gets no response), gw.late (read by on_message only) is
\* the HTTP thread's write of a record.
Place(st, xid, ok) ==
    [st EXCEPT !.exits = CreateOrder(@, xid, ok),
               !.calls = @ \cup {<<"place", xid>>}]
Cancel(st, xid, net) ==
    [st EXCEPT !.exits = CancelOrder(@, xid, xid \in net),
               !.calls = @ \cup {<<"cancel", xid>>}]

\* binance_client.cancel_order, line 275: requests.delete raises, and nothing
\* between the call and on_message's except clause catches it
Raise(st, xid) ==
    [st EXCEPT !.calls = @ \cup {<<"cancel", xid>>, <<"raise", xid>>}]
Raised(st) == \E c \in st.calls : c[1] = "raise"

\* place_sl_order, lines 430-435: the result of the gateway call is recorded
RecordSl(st, e, sl_client_id, ok) ==
    IF e \in DOMAIN st.orders /\ ok
    THEN [st EXCEPT !.orders[e].sl_client_id = sl_client_id,
                    !.orders[e].sl_placed = TRUE]
    ELSE st

\* OrderManager.place_sl_order
place_sl_order(st, e, gw) ==
    IF e \in DOMAIN st.orders /\ st.orders[e].sl_client_id # NoId
    THEN st
    ELSE RecordSl(Place(st, GenerateSlOrderId(st.exits, e), gw.sl), e,
                  GenerateSlOrderId(st.exits, e), gw.sl)

\* a take-profit recorded as placed whatever the gateway answered
RecordTp_always(st, e, tp_client_id, ok) ==
    IF e \in DOMAIN st.orders
    THEN [st EXCEPT !.orders[e].tp_placed = TRUE,
                    !.orders[e].tp_client_id = tp_client_id]
    ELSE st

\* place_tp_order, lines 305-316: the result of the gateway call is recorded
RecordTp(st, e, tp_client_id, ok) ==
    IF e \in DOMAIN st.orders
    THEN [st EXCEPT !.orders[e].tp_placed = ok,
                    !.orders[e].tp_client_id = IF ok THEN tp_client_id ELSE @]
    ELSE st

\* place_tp_order, lines 318-320
ThenStopLoss(st, e, gw) ==
    IF ENABLE_STOP_LOSS THEN place_sl_order(st, e, gw) ELSE st

\* OrderManager.place_tp_order.  With is_add_position the method calls
\* position_manager.get_average_cost, which PositionManager does not define:
\* the AttributeError is caught by the method's except clause and nothing is
\* placed.
place_tp_order(st, e, isAdd, gw) ==
    IF e \in DOMAIN st.orders /\ st.orders[e].tp_placed
    THEN st
    ELSE IF isAdd
    THEN st
    ELSE ThenStopLoss(
            RecordTp(Place(st, GenerateTpOrderId(st.exits, e), gw.tp), e,
                     GenerateTpOrderId(st.exits, e), gw.tp),
            e, gw)

\* handle_order_filled, lines 129-136 (a known id) and 160-173 (an unknown
\* one): the record is marked or created
MarkFilled(st, e, price, isAdd) ==
    IF e \in DOMAIN st.orders
    THEN [st EXCEPT !.orders[e].status = "FILLED",
                    !.orders[e].actual_fill_price = price,
                    !.orders[e].is_add_position = isAdd]
    ELSE [st EXCEPT !.orders = (e :> EarlyFillRecord(price, isAdd)) @@ @]

\* handle_order_filled without its test for an entry already handled
handle_order_filled_unguarded(st, e, price, executed_qty, isAdd, gw) ==
    place_tp_order(MarkFilled(st, e, price, isAdd), e, isAdd, gw)

\* OrderManager.handle_order_filled (the processing_orders guard is taken and
\* released inside the call; the stream thread is its only caller)
handle_order_filled(st, e, price, executed_qty, isAdd, gw) ==
    IF e \in DOMAIN st.orders /\ st.orders[e].status = "FILLED"
       /\ st.orders[e].tp_placed
    THEN st
    ELSE place_tp_order(MarkFilled(st, e, price, isAdd), e, isAdd, gw)

\* OrderManager.update_order_status
update_order_status(ord, id, status, executed_qty) ==
    IF id \in DOMAIN ord
    THEN [ord EXCEPT ![id].status = status, ![id].executed_qty = executed_qty]
    ELSE ord

\* tp_client_order_id.startswith(order_info['tp_client_id'][:20]): the first
\* 20 characters of an exit id are the entry id, '_' and the leading digit(s)
\* of the exit timestamp, which the exit orders of an entry share when they
\* are placed within the same 10000 s: the test compares the entry parts
MatchesExit(xid, ref) ==
    ref # NoId /\ Len(xid) >= 4 /\ EntryPart(xid) = EntryPart(ref)

\* handle_tp_filled with the status written after a successful cancel only
TpFilledFor_ifCanceled(st, e, gw) ==
    IF CancelResult(st.exits, st.orders[e].sl_client_id,
                    st.orders[e].sl_client_id \in gw.net)
    THEN Cancel([st EXCEPT !.orders[e].status = "TP_FILLED",
                           !.orders[e].sl_placed = FALSE],
                st.orders[e].sl_client_id, gw.net)
    ELSE Cancel(st, st.orders[e].sl_client_id, gw.net)

\* handle_tp_filled, lines 535-553, for the record e that matched: status
\* TP_FILLED, then the stop-loss is canceled and sl_placed cleared if the
\* cancel succeeded
TpFilledFor(st, e, gw) ==
    IF st.orders[e].sl_client_id = NoId
    THEN [st EXCEPT !.orders[e].status = "TP_FILLED"]
    ELSE IF st.orders[e].sl_client_id \in gw.exc
    THEN Raise([st EXCEPT !.orders[e].status = "TP_FILLED"],
               st.orders[e].sl_client_id)
    ELSE Cancel([st EXCEPT
                   !.orders[e].status = "TP_FILLED",
                   !.orders[e].sl_placed =
                       IF CancelResult(st.exits, st.orders[e].sl_client_id,
                                       st.orders[e].sl_client_id \in gw.net)
                       THEN FALSE ELSE @],
                st.orders[e].sl_client_id, gw.net)

TpOwners(ord, tpid) == {e \in DOMAIN ord : MatchesExit(tpid, ord[e].tp_client_id)}

\* OrderManager.handle_tp_filled
handle_tp_filled(st, tpid, gw) ==
    IF TpOwners(st.orders, tpid) = {} THEN st
    ELSE TpFilledFor(st, CHOOSE o \in TpOwners(st.orders, tpid) : TRUE, gw)

\* handle_sl_filled, lines 570-588, for the record e that matched
SlFilledFor(st, e, gw) ==
    IF st.orders[e].tp_client_id = NoId
    THEN [st EXCEPT !.orders[e].status = "SL_FILLED"]
    ELSE IF st.orders[e].tp_client_id \in gw.exc
    THEN Raise([st EXCEPT !.orders[e].status = "SL_FILLED"],
               st.orders[e].tp_client_id)
    ELSE Cancel([st EXCEPT
                   !.orders[e].status = "SL_FILLED",
                   !.orders[e].tp_placed =
                       IF CancelResult(st.exits, st.orders[e].tp_client_id,
                                       st.orders[e].tp_client_id \in gw.net)
                       THEN FALSE ELSE @],
                st.orders[e].tp_client_id, gw.net)

SlOwners(ord, slid) == {e \in DOMAIN ord : MatchesExit(slid, ord[e].sl_client_id)}

\* OrderManager.handle_sl_filled
handle_sl_filled(st, slid, gw) ==
    IF SlOwners(st.orders, slid) = {} THEN st
    ELSE SlFilledFor(st, CHOOSE o \in SlOwners(st.orders, slid) : TRUE, gw)

\* the orders cancel_existing_tp_orders_for_symbol tries to cancel
TpCancelTargets(ord, symbol) ==
    {e \in DOMAIN ord : SymbolOf(e) = symbol /\ ord[e].tp_client_id # NoId
                        /\ ord[e].tp_placed}
SlCancelTargets(ord, symbol) ==
    {e \in DOMAIN ord : SymbolOf(e) = symbol /\ ord[e].sl_client_id # NoId
                        /\ ord[e].sl_placed}

\* the targets whose cancel request succeeds
TpCanceled(st, symbol, net) ==
    {e \in TpCancelTargets(st.orders, symbol) :
        CancelResult(st.exits, st.orders[e].tp_client_id,
                     st.orders[e].tp_client_id \in net)}
SlCanceled(st, symbol, net) ==
    {e \in SlCancelTargets(st.orders, symbol) :
        CancelResult(st.exits, st.orders[e].sl_client_id,
                     st.orders[e].sl_client_id \in net)}

\* OrderManager.cancel_existing_tp_orders_for_symbol (count is its result)
cancel_existing_tp_orders_for_symbol(st, symbol, net) ==
    [orders |-> [e \in DOMAIN st.orders |->
                   IF e \in TpCanceled(st, symbol, net)
                   THEN [st.orders[e] EXCEPT !.tp_placed = FALSE]
                   ELSE st.orders[e]],
     exits |-> [x \in DOMAIN st.exits |->
                   IF \E e \in TpCanceled(st, symbol, net) :
                         st.orders[e].tp_client_id = x
                   THEN "canceled" ELSE st.exits[x]],
     calls |-> st.calls \cup {<<"cancel", st.orders[e].tp_client_id>> :
                                 e \in TpCancelTargets(st.orders, symbol)},
     count |-> Cardinality(TpCanceled(st, symbol, net))]

\* OrderManager.cancel_existing_sl_orders_for_symbol (count is its result)
cancel_existing_sl_orders_for_symbol(st, symbol, net) ==
    [orders |-> [e \in DOMAIN st.orders |->
                   IF e \in SlCanceled(st, symbol, net)
                   THEN [st.orders[e] EXCEPT !.sl_placed = FALSE]
                   ELSE st.orders[e]],
     exits |-> [x \in DOMAIN st.exits |->
                   IF \E e \in SlCanceled(st, symbol, net) :
                         st.orders[e].sl_client_id = x
                   THEN "canceled" ELSE st.exits[x]],
     calls |-> st.calls \cup {<<"cancel", st.orders[e].sl_client_id>> :
                                 e \in SlCancelTargets(st.orders, symbol)},
     count |-> Cardinality(SlCanceled(st, symbol, net))]

\* the registry, exchange and request parts of a handler's result
StOf(r) == [orders |-> r.orders, exits |-> r.exits, calls |-> r.calls]

\* ------------------------------------------------------- WebSocketManager
\* float(x) raises for a string that is not a number
Parses(x) == x # Bad

\* float(x) > 0 and float(x) <= 0 for a string that parses
FloatGt0(x) == x # NaN /\ x > 0
FloatLe0(x) == x # NaN /\ x <= 0

\* on_message, price selection: ap if positive, else L if positive, else p
SelectPrice(ap, L, p) ==
    IF FloatGt0(ap) THEN ap ELSE IF FloatGt0(L) THEN L ELSE p
\* the selection itself raises when it has to parse a malformed field
SelectRaises(ap, L) == ~Parses(ap) \/ (~FloatGt0(ap) /\ ~Parses(L))

\* _cancel_partner_order: scans get_all_open_orders() for an order with the
\* same prefix and the partner suffix; _cancel_order_safe is called for a match
PartnerCandidates(ex, id, suffix) ==
    {o \in GetAllOpenOrders(ex) :
        Len(id) >= 4 /\ SubSeq(o, 1, Len(id) - 1) = SubSeq(id, 1, Len(id) - 1)
        /\ EndsWith(o, suffix)}

\* _handle_tp_sl_completion: the registry is not touched; an exchange order is
\* canceled only for a partner found among the open orders
handle_tp_sl_completion(ex, id, X) ==
    IF X # "FILLED" THEN ex
    ELSE IF EndsWith(id, "T")
    THEN IF PartnerCandidates(ex, id, "S") = {} THEN ex
         ELSE CancelOrder(ex, CHOOSE o \in PartnerCandidates(ex, id, "S") : TRUE, TRUE)
    ELSE IF EndsWith(id, "S")
    THEN IF PartnerCandidates(ex, id, "T") = {} THEN ex
         ELSE CancelOrder(ex, CHOOSE o \in PartnerCandidates(ex, id, "T") : TRUE, TRUE)
    ELSE ex

\* _validate_order_record_relaxed: float(record['price']) must not raise
\* (price is None for a MARKET signal)
validate_order_record_relaxed(rec) == rec.price # 0 /\ Parses(rec.price)

\* _update_order_status_with_db_sync
update_order_status_with_db_sync(ord, id, X) ==
    IF IsSystemOrder(id) THEN update_order_status(ord, id, X, ExecQty(X)) ELSE ord

\* range(6), line 168: the re-checks of the registry for an unknown id
Attempts == 6
\* the HTTP thread's write of a PENDING record under the id while the stream
\* thread sleeps between re-checks: late.at is the re-check that first sees
\* the record (0: no write), late.price the record's price
NoLate == [at |-> 0, price |-> 0]
Lates == {NoLate} \cup [at : 1..Attempts, price : {LimitPx, 0}]

\* order_manager.orders as re-check number n reads it
Seen(st, id, n, late) ==
    IF late.at \in 1..n
    THEN [st EXCEPT !.orders = (id :> PendingRecord(late.price)) @@ @]
    ELSE st

\* on_message, lines 168-178: sleep, look the id up, leave the loop when it
\* is there
RECURSIVE RetryLoop(_, _, _, _)
RetryLoop(st, id, attempt, late) ==
    IF attempt = Attempts
    THEN [st EXCEPT !.rechecks = attempt]
    ELSE IF id \in DOMAIN Seen(st, id, attempt + 1, late).orders
    THEN [Seen(st, id, attempt + 1, late) EXCEPT !.rechecks = attempt + 1]
    ELSE RetryLoop(st, id, attempt + 1, late)

\* on_message, lines 180-204: without a record after the loop, one is made
\* from the event
Synthesize(st, id, price) ==
    IF id \in DOMAIN st.orders THEN st
    ELSE [st EXCEPT !.orders = (id :> StreamRecord(price)) @@ @]

\* on_message, lines 160-204: the record on hand for the FILLED block
WithStreamRecord(st, id, price, late) ==
    IF id \in DOMAIN st.orders THEN st
    ELSE Synthesize(RetryLoop(st, id, 0, late), id, price)

\* on_message, lines 224-228: an add-position fill first cancels the symbol's
\* take-profit and stop-loss orders
CancelForAddPosition(st, id, gw) ==
    IF st.orders[id].is_add_position
    THEN StOf(cancel_existing_sl_orders_for_symbol(
                 StOf(cancel_existing_tp_orders_for_symbol(
                          st, SymbolOf(id), gw.net)),
                 SymbolOf(id), gw.net))
    ELSE st

\* what the FILLED block of on_message hands back: done = TRUE when the
\* handler returns from inside the block
Returned(st, path) == [st |-> st, done |-> TRUE, path |-> path]

\* on_message, lines 207-246: validation, duplicate test and processing
EntryFilledKnown(st, id, price, gw) ==
    IF id \notin DOMAIN st.orders
    THEN Returned(st, "error")
    ELSE IF ~validate_order_record_relaxed(st.orders[id])
    THEN Returned(st, "invalid_record")
    ELSE IF st.orders[id].status = "FILLED" /\ st.orders[id].tp_placed
    THEN Returned(st, "duplicate")
    ELSE [st |-> handle_order_filled(CancelForAddPosition(st, id, gw), id,
                                     price, ExecQty("FILLED"),
                                     st.orders[id].is_add_position, gw),
          done |-> FALSE, path |-> "filled"]

\* on_message, lines 142-246: a FILLED event of an entry order
entry_filled(st, id, price, gw) ==
    IF ~IsSystemOrder(id)
    THEN Returned(st, "foreign")
    ELSE IF ~Parses(price) \/ FloatLe0(price)
    THEN Returned(st, "bad_price")
    ELSE EntryFilledKnown(WithStreamRecord(st, id, price, gw.late), id, price, gw)

\* what on_message leaves behind, with the branch taken and the price used
Outcome(st, path, price) ==
    [orders |-> st.orders, exits |-> st.exits, calls |-> st.calls,
     rechecks |-> st.rechecks, price |-> price,
     path |-> IF Raised(st) THEN "error" ELSE path]

\* the FILLED block entered for a partial fill as well
EntryStep_anyFill(st, id, X, price, gw) ==
    IF X \in {"FILLED", "PARTIALLY_FILLED"} /\ ~EndsWith(id, "T")
       /\ ~EndsWith(id, "S")
    THEN entry_filled(st, id, price, gw)
    ELSE [st |-> st, done |-> FALSE, path |-> "status"]

\* on_message, lines 142-246
EntryStep(st, id, X, price, gw) ==
    IF X = "FILLED" /\ ~EndsWith(id, "T") /\ ~EndsWith(id, "S")
    THEN entry_filled(st, id, price, gw)
    ELSE [st |-> st, done |-> FALSE, path |-> "status"]

\* on_message, line 249
StatusStep(st, id, X) ==
    [st EXCEPT !.orders = update_order_status_with_db_sync(@, id, X)]

\* on_message, lines 251-259 (an id ends in at most one of the two suffixes)
ExitStep(st, id, X, gw) ==
    IF X = "FILLED" /\ EndsWith(id, "T") THEN handle_tp_filled(st, id, gw)
    ELSE IF X = "FILLED" /\ EndsWith(id, "S") THEN handle_sl_filled(st, id, gw)
    ELSE st

ExitPath(path, id, X) ==
    IF X = "FILLED" /\ EndsWith(id, "T") THEN "tp_filled"
    ELSE IF X = "FILLED" /\ EndsWith(id, "S") THEN "sl_filled"
    ELSE path

\* on_message, lines 249-259, unless the FILLED block returned
AfterEntryStep(r, id, X, price, gw) ==
    IF r.done
    THEN Outcome(r.st, r.path, price)
    ELSE Outcome(ExitStep(StatusStep(r.st, id, X), id, X, gw),
                 ExitPath(r.path, id, X), price)

\* WebSocketManager.on_message for one ORDER_TRADE_UPDATE event
on_message(st, id, X, ap, L, p, gw) ==
    IF SelectRaises(ap, L)
    THEN Outcome(st, "error", 0)
    ELSE AfterEntryStep(
            EntryStep([st EXCEPT !.exits = handle_tp_sl_completion(@, id, X)],
                      id, X, SelectPrice(ap, L, p), gw),
            id, X, SelectPrice(ap, L, p), gw)

\* ----------------------------------------------------------- cancel route
\* routes.cancel_symbol_orders: cancels the symbol's NEW / PARTIALLY_FILLED
\* entries and their take-profit at the exchange (no registry update), then
\* calls the two cancel_existing_*_orders_for_symbol methods
RouteEntryTargets(ord, symbol) ==
    {e \in DOMAIN ord : SymbolOf(e) = symbol
                        /\ ord[e].status \in {"NEW", "PARTIALLY_FILLED"}}

\* cancel_symbol_orders, lines 282-296: the cancel requests sent for the
\* entries and their take-profit orders
RouteCancels(st, symbol, net) ==
    [st EXCEPT
       !.exits = [x \in DOMAIN @ |->
                    IF x \in ({st.orders[e].tp_client_id :
                                  e \in RouteEntryTargets(st.orders, symbol)}
                              \ {NoId})
                       /\ CancelResult(@, x, x \in net)
                    THEN "canceled" ELSE @[x]],
       !.calls = @ \cup {<<"cancel", e>> :
                            e \in RouteEntryTargets(st.orders, symbol)}
                   \cup ({<<"cancel", st.orders[e].tp_client_id>> :
                            e \in RouteEntryTargets(st.orders, symbol)}
                         \ {<<"cancel", NoId>>})]

\* the second count is added to the first
AddCount(b, count) == [b EXCEPT !.count = @ + count]

\* the stop-loss cancels follow the take-profit cancels
ThenCancelSl(a, symbol, net) ==
    AddCount(cancel_existing_sl_orders_for_symbol(StOf(a), symbol, net), a.count)

cancel_symbol_orders(st, symbol, net) ==
    ThenCancelSl(cancel_existing_tp_orders_for_symbol(
                     RouteCancels(st, symbol, net), symbol, net),
                 symbol, net)

\* --------------------------------------------- cancel-for-symbol, in order
\* cancel_existing_tp_orders_for_symbol / cancel_existing_sl_orders_for_symbol
\* as the loop they are: self.orders is walked in insertion order, and
\* binance_client.cancel_order answers each request with the canceled order
\* ("ok"), with None ("fail", a status other than 200) or by raising
\* ("raise": requests.delete is not guarded).  k is "T" for the take-profit
\* method and "S" for the stop-loss method.
Answers == {"ok", "fail", "raise"}
NoCancel == [done |-> FALSE]

RefOf(rec, k) == IF k = "T" THEN rec.tp_client_id ELSE rec.sl_client_id
Flagged(rec, k) ==
    RefOf(rec, k) # NoId /\ (IF k = "T" THEN rec.tp_placed ELSE rec.sl_placed)
Unflag(rec, k) ==
    IF k = "T" THEN [rec EXCEPT !.tp_placed = FALSE]
    ELSE [rec EXCEPT !.sl_placed = FALSE]

\* the loop's state: registry, exchange, the requests sent, cancelled_count,
\* and whether a request raised
LoopStart(st) ==
    [orders |-> st.orders, exits |-> st.exits, sent |-> {}, count |-> 0,
     raised |-> FALSE]

\* one iteration for the record under e
CancelOne(c, e, k, ans) ==
    IF ans[RefOf(c.orders[e], k)] = "raise"
    THEN [c EXCEPT !.sent = @ \cup {RefOf(c.orders[e], k)}, !.raised = TRUE]
    ELSE IF CancelResult(c.exits, RefOf(c.orders[e], k),
                         ans[RefOf(c.orders[e], k)] = "ok")
    THEN [c EXCEPT !.sent = @ \cup {RefOf(c.orders[e], k)},
                   !.exits[RefOf(c.orders[e], k)] = "canceled",
                   !.orders[e] = Unflag(@, k),
                   !.count = @ + 1]
    ELSE [c EXCEPT !.sent = @ \cup {RefOf(c.orders[e], k)}]

RECURSIVE CancelLoop(_, _, _, _, _)
CancelLoop(c, todo, symbol, k, ans) ==
    IF todo = <<>> \/ c.raised THEN c
    ELSE IF SymbolOf(Head(todo)) = symbol /\ Flagged(c.orders[Head(todo)], k)
    THEN CancelLoop(CancelOne(c, Head(todo), k, ans), Tail(todo), symbol, k, ans)
    ELSE CancelLoop(c, Tail(todo), symbol, k, ans)

\* the except clause returns 0; what the loop did before stays done
LoopReturn(c) == [c EXCEPT !.count = IF c.raised THEN 0 ELSE @]

cancel_existing_orders_for_symbol(st, order, symbol, k, ans) ==
    LoopReturn(CancelLoop(LoopStart(st), order, symbol, k, ans))

\* ------------------------------------------------------------------ sweeper
\* binance_client.get_order_by_client_id imports extract_symbol_from_order_id
\* from utils.helpers, which does not define it: the ImportError is caught
\* and the method returns None
get_order_by_client_id(ex, id) == "None"

\* OrderTimeoutManager._should_check_order
should_check_order(ord, id) ==
    /\ IsSystemOrder(id)
    /\ ord[id].status \in {"NEW", "PARTIALLY_FILLED"}
    /\ ~EndsWith(id, "T") /\ ~EndsWith(id, "S")

\* a sweep that cancels without looking at the re-confirmed status
SweepCancels_unconfirmed(ord, ex, timedOut) == timedOut

\* OrderTimeoutManager._cancel_timeout_order: the entries that get a cancel
\* request are those whose re-confirmed gateway status is still open
SweepCancels(ord, ex, timedOut) ==
    {e \in timedOut : get_order_by_client_id(ex, e) \in {"NEW", "PARTIALLY_FILLED"}}

\* config.settings defines ORDER_TIMEOUT_MINUTES and no get_strategy_timeout:
\* the name order_timeout_manager imports (line 21) and calls (line 152) is
\* unbound, and the call raises
ORDER_TIMEOUT_MINUTES == 45
get_strategy_timeout(signal_type) == [raised |-> TRUE, minutes |-> 0]

\* OrderTimeoutManager._is_order_timeout: times are in seconds; an exception
\* inside the method is caught and the method returns False
is_order_timeout(order_info, current_time) ==
    IF get_strategy_timeout(order_info.signal_type).raised THEN FALSE
    ELSE current_time > order_info.entry_time
                          + get_strategy_timeout(order_info.signal_type).minutes * 60
                          + 30

\* the records and times considered: the four kinds of id, every status a
\* record can have, ages around the configured timeout
TimeoutIds == EntryIds \cup ManualIds
                \cup {e \o <<1, "T">> : e \in EntryIds}
                \cup {e \o <<1, "S">> : e \in EntryIds}
TimeoutStatuses == {"PENDING", "NEW", "PARTIALLY_FILLED", "FILLED", "CANCELED",
                    "TP_FILLED", "SL_FILLED"}
TimeoutAges == {0, ORDER_TIMEOUT_MINUTES * 60 - 5, ORDER_TIMEOUT_MINUTES * 60,
                ORDER_TIMEOUT_MINUTES * 60 + 30, ORDER_TIMEOUT_MINUTES * 60 + 31,
                ORDER_TIMEOUT_MINUTES * 120}
SweepTimes == {ORDER_TIMEOUT_MINUTES * 600}

NoCheck == [done |-> FALSE]

\* _check_timeout_orders, lines 74-81: the test one record goes through in a
\* sweep at time now (records carry no signal_type: the lookup gets None)
CheckTimeout(id, status, age, now) ==
    /\ swCheck' = [done |-> TRUE, id |-> id, status |-> status, age |-> age,
                   selected |->
                      /\ should_check_order((id :> [status |-> status]), id)
                      /\ is_order_timeout([entry_time |-> now - age,
                                           signal_type |-> "None"], now)]
    /\ UNCHANGED <<lifecycleVars, tpCalc, pm, avgCall, cancelVars, wsm, iso,
                 gen, race, guard>>

\* ------------------------------------------------------ take-profit offset
\* Offsets are integers in units of 1/100000 of a price unit; prices are
\* whole price units; ATR values are in 1/10000, multipliers in 1/10 (their
\* product is an offset).  Arithmetic is exact.
TP_PERCENTAGE == 5000               \* 0.05
MIN_TP_PROFIT_PERCENTAGE == 450     \* 0.0045
None == -1
NotNumeric == -2                    \* a string that is not a number
TinyAtr == -3                       \* a float below 0.0001, such as 5e-05:
                                    \* str() gives it in exponent notation

\* atr_value and str(atr_value).replace('.', '', 1).isdigit()
IsNumericAtr(atr) == atr # None /\ atr > 0

\* OrderManager._calculate_tp_offset: the explicit offset, else ATR x
\* multiplier (a None multiplier raises TypeError, which is caught), else
\* calculation_price * TP_PERCENTAGE
calculate_tp_offset(entry_order, calculation_price) ==
    IF entry_order.tp_price_offset # None
    THEN entry_order.tp_price_offset
    ELSE IF IsNumericAtr(entry_order.atr) /\ entry_order.tp_multiplier # None
    THEN entry_order.atr * entry_order.tp_multiplier
    ELSE calculation_price * TP_PERCENTAGE

\* the inputs considered
TpBases == {50, 100, 200}
TpExplicit == {None, 100000, 2000000}               \* None, 1.0, 20.0
TpAtr == {None, NotNumeric, TinyAtr, 1000, 20000, 150000}  \* 0.1, 2.0, 15.0
TpMultipliers == {None, 10, 15}                     \* 1.0, 1.5

NoTpCalc == [done |-> FALSE]

\* place_tp_order, lines 250-257: the offset for a cost basis
PlaceTpOffset(basis, explicit, atr, mult) ==
    /\ tpCalc' = [done |-> TRUE, basis |-> basis, explicit |-> explicit,
                  atr |-> atr, mult |-> mult,
                  offset |-> calculate_tp_offset(
                                [tp_price_offset |-> explicit, atr |-> atr,
                                 tp_multiplier |-> mult], basis)]
    /\ UNCHANGED <<lifecycleVars, pm, avgCall, sweepVars, cancelVars, wsm,
                 iso, gen, race, guard>>

\* ------------------------------------------------------------ exit prices
\* Prices and offsets are integers in units of 1/100000 of a price unit.
\* round(x, precision) keeps precision decimals, that is multiples of
\* 10^(5 - precision), and rounds a half to the even neighbour; the inputs
\* considered stay off the halves, where the float's last bit would decide.
STOP_LOSS_PERCENTAGE == 2000        \* 0.02
Decimals == 5
RoundUnit(precision) == 10 ^ (Decimals - precision)
RoundDown(x, unit) == (x \div unit) * unit
round(x, precision) ==
    IF 2 * (x % RoundUnit(precision)) < RoundUnit(precision)
    THEN RoundDown(x, RoundUnit(precision))
    ELSE IF 2 * (x % RoundUnit(precision)) > RoundUnit(precision)
    THEN RoundDown(x, RoundUnit(precision)) + RoundUnit(precision)
    ELSE IF (x \div RoundUnit(precision)) % 2 = 0
    THEN RoundDown(x, RoundUnit(precision))
    ELSE RoundDown(x, RoundUnit(precision)) + RoundUnit(precision)

\* place_tp_order, lines 262-267
tp_side(side) == IF side = "BUY" THEN "SELL" ELSE "BUY"
tp_price(side, calculation_price, tp_price_offset, precision) ==
    IF side = "BUY"
    THEN round(calculation_price + tp_price_offset, precision)
    ELSE round(calculation_price - tp_price_offset, precision)

\* place_sl_order, lines 385-393
\* (calculation_price * STOP_LOSS_PERCENTAGE, computed without leaving the
\* 32-bit range; the cost bases considered are multiples of the divisor)
sl_price_offset(calculation_price) ==
    calculation_price \div (100000 \div STOP_LOSS_PERCENTAGE)
sl_side(side) == IF side = "BUY" THEN "SELL" ELSE "BUY"
sl_price(side, calculation_price, precision) ==
    IF side = "BUY"
    THEN round(calculation_price - sl_price_offset(calculation_price), precision)
    ELSE round(calculation_price + sl_price_offset(calculation_price), precision)

\* the inputs considered: cost bases 0.0815, 0.5, 25.0015, 100.0, 100.004;
\* offsets 0.0005, 0.003, 0.1, 2.5; the precisions of SYMBOL_PRECISION
ExitSides == {"BUY", "SELL"}
ExitBases == {8150, 50000, 2500150, 10000000, 10000400}
ExitOffsets == {50, 300, 10000, 250000}
Precisions == {1, 2, 5}

\* place_tp_order, lines 256-289, and place_sl_order, lines 385-414: the two
\* orders sent for an entry of the given side
PlaceExits(side, basis, offset, precision) ==
    /\ tpCalc' = [done |-> TRUE, side |-> side, basis |-> basis,
                  offset |-> offset, precision |-> precision,
                  tp_side |-> tp_side(side),
                  tp_price |-> tp_price(side, basis, offset, precision),
                  sl_side |-> sl_side(side),
                  sl_price |-> sl_price(side, basis, precision)]
    /\ UNCHANGED <<lifecycleVars, pm, avgCall, sweepVars, cancelVars, wsm,
                   iso, gen, race, guard>>

NextExit ==
    \E side \in ExitSides, basis \in ExitBases, offset \in ExitOffsets,
       precision \in Precisions : PlaceExits(side, basis, offset, precision)

\* -------------------------------------------------------- position tracker
\* Quantities are integers in units of 0.0005; 0 stands for "symbol not in
\* the read".  An average is the exact fraction num / den.  Arithmetic is
\* exact; the inputs considered stay off the boundaries of the comparisons,
\* where floating-point rounding would decide.
Tolerance == 2                      \* 0.001
Absent == 0
NoMemory == 0
NoCall == [done |-> FALSE]
Abs(x) == IF x < 0 THEN -x ELSE x
Min(a, b) == IF a < b THEN a ELSE b

\* a fallback that reports success
Fallback_ok(new_price, new_quantity) ==
    IF Parses(new_price)
    THEN [raised |-> FALSE, num |-> new_price, den |-> 1,
          total |-> new_quantity, ok |-> TRUE]
    ELSE [raised |-> TRUE]

\* the result of the early return and of the except clause:
\* (float(new_price), float(new_quantity), False); float() raises for a
\* price that is not a number, also inside the except clause
Fallback(new_price, new_quantity) ==
    IF Parses(new_price)
    THEN [raised |-> FALSE, num |-> new_price, den |-> 1,
          total |-> new_quantity, ok |-> FALSE]
    ELSE [raised |-> TRUE]

\* lines 62-74 without the comparison of the two reads
ConservativeQuantity_second(first_amt, second_amt) == second_amt

\* lines 62-74: the smaller read when the reads differ by more than 0.001
ConservativeQuantity(first_amt, second_amt) ==
    IF Abs(first_amt - second_amt) > Tolerance
    THEN Min(first_amt, second_amt) ELSE second_amt

\* lines 80-96: a position that grew to more than 1.8 times the remembered
\* amount within 10 minutes, and is more than twice the incoming quantity
DoublingAnomaly(current, last_amt, recent, expected) ==
    /\ last_amt # NoMemory
    /\ current * 10 > last_amt * 18 /\ recent /\ current > expected * 2

\* line 110: the total exceeds five times the incoming quantity
TotalTooLarge(current, expected) == current + expected > expected * 5

\* an unweighted mean of the two prices
WeightedAverage_mean(current, avg_price, expected, new_price, total) ==
    [num |-> avg_price + new_price, den |-> 2]

\* lines 121-122: total_cost / total_quantity
WeightedAverage(current, avg_price, expected, new_price, total) ==
    [num |-> current * avg_price + expected * new_price, den |-> total]

\* PositionManager.calculate_average_cost_and_quantity; first / second are
\* the symbol's quantity in the two reads, avg_price the second read's
\* entryPrice, last_amt the remembered amount, recent says that it was
\* recorded less than 600 s ago.  The result carries the memory afterwards.
calculate_average_cost_and_quantity(first, second, avg_price, new_price, new_quantity, last_amt, recent) ==
    IF first = Absent \/ second = Absent
    THEN Fallback(new_price, new_quantity) @@ [last |-> last_amt]
    ELSE LET c0 == ConservativeQuantity(first, second)
             c1 == IF DoublingAnomaly(c0, last_amt, recent, new_quantity)
                   THEN last_amt + new_quantity ELSE c0
             clamp == TotalTooLarge(c1, new_quantity)
             total == IF clamp THEN new_quantity * 2 ELSE c1 + new_quantity
             current == IF clamp THEN new_quantity ELSE c1
         IN IF ~Parses(new_price)
            THEN Fallback(new_price, new_quantity) @@ [last |-> c1]
            ELSE LET a == WeightedAverage(current, avg_price, new_quantity,
                                          new_price, total)
                 IN [raised |-> FALSE, num |-> a.num, den |-> a.den,
                     total |-> total, ok |-> TRUE, last |-> c1]

\* the inputs considered
PositionReads == {Absent, 4, 5, 8, 30}
EntryPrices == {100}
NewPrices == {130, Bad}
NewQuantities == {2, 4}

\* one call of calculate_average_cost_and_quantity
Calculate(first, second, avg_price, new_price, new_quantity, recent) ==
    /\ LET r == calculate_average_cost_and_quantity(
                    first, second, avg_price, new_price, new_quantity, pm, recent)
       IN /\ avgCall' = [done |-> TRUE, first |-> first, second |-> second,
                         avg_price |-> avg_price, new_price |-> new_price,
                         new_quantity |-> new_quantity, last_amt |-> pm,
                         recent |-> recent,
                         out |-> [f \in DOMAIN r \ {"last"} |-> r[f]]]
          /\ pm' = r.last
    /\ UNCHANGED <<lifecycleVars, tpCalc, sweepVars, cancelVars, wsm, iso, gen, race, guard>>

\* -------------------------------------------------- WebSocketManager.start
\* wsm is the start loop: pc is its position, listen_key and connection_time
\* are the object's fields, now is time.time() in hours, conns counts the
\* run_forever calls and lastEnd is how the last one ended.  tries counts the
\* get_listen_key calls since the last key, ka the keep-alive threads that
\* are running, and expired tells that the exchange has reported the listen
\* key as expired (-1125) since the last key was acquired.
MaxConns == 3        \* run_forever calls counted
MaxHours == 48       \* hours the clock counts
MaxTries == 40       \* get_listen_key calls counted
RefreshHours == 23

KeyResults == {"key", "none", "raise"}
\* what the renewal request of keep_listen_key_alive comes back with: 200,
\* another status, another status with code -1125, or an exception
RenewResults == {"ok", "fail", "expired", "raise"}
EndKinds == {"error", "close", "exception"}
Durations == {0, 12, 24}

\* __init__ and the first statement of start
Started ==
    [pc |-> "top", listen_key |-> "none", connection_time |-> 0, now |-> 0,
     conns |-> 0, lastEnd |-> "none", tries |-> 0, ka |-> 0,
     expired |-> FALSE]

\* an exception escapes the loop
OnException_escapes == "done"
\* except Exception: log, sleep 5 s, next iteration
OnException == "sleep_error"

\* start, lines 36-40
Refresh(now, connection_time) ==
    IF now - connection_time > RefreshHours THEN now ELSE connection_time

\* start, lines 36-47: binance_client.get_listen_key returns a key, returns
\* None or raises
GetListenKey(res) ==
    /\ wsm.pc = "top"
    /\ wsm' = [wsm EXCEPT
                 !.connection_time = Refresh(wsm.now, @),
                 !.listen_key = IF res = "raise" THEN @ ELSE res,
                 !.tries = IF res = "key" THEN 0 ELSE Min(@ + 1, MaxTries),
                 !.expired = IF res = "key" THEN FALSE ELSE @,
                 !.pc = IF res = "key" THEN "keyed"
                        ELSE IF res = "none" THEN "sleep_nokey"
                        ELSE OnException]
    /\ UNCHANGED <<lifecycleVars, tpCalc, pm, avgCall, sweepVars, cancelVars,
                 iso, gen, race, guard>>

\* start, lines 49-75: the keep-alive thread is started, the WebSocketApp is
\* built and run_forever is called
Connect ==
    /\ wsm.pc = "keyed"
    /\ wsm' = [wsm EXCEPT !.pc = "running",
                          !.ka = Min(@ + 1, MaxConns),
                          !.conns = Min(@ + 1, MaxConns)]
    /\ UNCHANGED <<lifecycleVars, tpCalc, pm, avgCall, sweepVars, cancelVars,
                 iso, gen, race, guard>>

\* run_forever ends after d hours: it returns after an error or a close, or
\* it raises
ConnectionEnd(kind, d) ==
    /\ wsm.pc = "running"
    /\ wsm' = [wsm EXCEPT !.now = Min(@ + d, MaxHours),
                          !.lastEnd = kind,
                          !.pc = IF kind = "exception" THEN OnException
                                 ELSE "sleep_reconnect"]
    /\ UNCHANGED <<lifecycleVars, tpCalc, pm, avgCall, sweepVars, cancelVars,
                 iso, gen, race, guard>>

\* binance_client.keep_listen_key_alive, one round of a keep-alive thread:
\* on -1125 the thread function returns False and the thread ends (nothing
\* reads the value, and start is not told); otherwise it sleeps 30 minutes
\* and renews again
KeepAlive(res) ==
    /\ wsm.ka > 0
    /\ wsm' = [wsm EXCEPT !.ka = IF res = "expired" THEN @ - 1 ELSE @,
                          !.expired = IF res = "expired" THEN TRUE ELSE @]
    /\ UNCHANGED <<lifecycleVars, tpCalc, pm, avgCall, sweepVars, cancelVars,
                 iso, gen, race, guard>>

\* time.sleep(5) at lines 46, 77 and 81 returns and the loop starts over
Sleep ==
    /\ wsm.pc \in {"sleep_nokey", "sleep_reconnect", "sleep_error"}
    /\ wsm' = [wsm EXCEPT !.pc = "top"]
    /\ UNCHANGED <<lifecycleVars, tpCalc, pm, avgCall, sweepVars, cancelVars,
                 iso, gen, race, guard>>

\* ------------------------------------------- the stream and sweeper threads
\* iso.stream / iso.sweeper: the thread is "alive" ("idle" or "sweeping" for
\* the sweeper) or "dead" after an exception left its loop.  events counts
\* the stream events handled and lastEvent tells how the last one went;
\* given is timeout_orders of the current sweep, todo what is left of it,
\* handled the orders _cancel_timeout_order was called for and returned,
\* faulted those among them in whose handling an exception was raised.
MaxEvents == 2       \* stream events counted
MaxSweeps == 2       \* sweeps counted
SweepIds == {<<"V69", "BTCUSD", "B1", "1">>, <<"V69", "BTCUSD", "S2", "1">>,
             <<"V69", "ETHUSD", "B3", "1">>}
\* timeout_orders: entries of the registry in its order, each at most once
TimeoutLists ==
    {<<>>} \cup {<<a>> : a \in SweepIds}
    \cup {q \in {<<a, b>> : a \in SweepIds, b \in SweepIds} : q[1] # q[2]}

Threads ==
    [stream |-> "alive", events |-> 0, lastEvent |-> "none",
     afterRaise |-> FALSE,
     sweeper |-> "idle", given |-> <<>>, todo |-> <<>>, handled |-> {},
     faulted |-> {}, sweeps |-> 0]

\* on_message, lines 98 and 261-263: the body is one try block and the
\* except clause logs; the callback returns either way
OnMessageReturn(raised) == IF raised THEN "raised" ELSE "ok"

\* _cancel_timeout_order, lines 179 and 213-220, without its try block: the
\* exception leaves the for loop and ends the sweep in the except clause of
\* _check_timeout_orders
AfterCancel_abort(todo, raised) == IF raised THEN <<>> ELSE Tail(todo)
\* _cancel_timeout_order, lines 179 and 213-220: an exception raised in the
\* body is logged and the method returns; the for loop of
\* _check_timeout_orders goes on with the next order
AfterCancel(todo, raised) == Tail(todo)

\* the stream thread calls on_message for one event; raised: an exception
\* is raised while the event is processed
StreamMessage(raised) ==
    /\ iso.stream = "alive"
    /\ iso' = [iso EXCEPT !.events = Min(@ + 1, MaxEvents),
                          !.lastEvent = OnMessageReturn(raised),
                          !.afterRaise = iso.lastEvent = "raised"]
    /\ UNCHANGED <<lifecycleVars, tpCalc, pm, avgCall, sweepVars, cancelVars,
                 wsm, gen, race, guard>>

\* OrderTimeoutManager.start calls _check_timeout_orders, which collects
\* timeout_orders (lines 60-81); raised: an exception is raised before the
\* for loop, caught at lines 90-93, and the sweep is over
SweepBegin(list, raised) ==
    /\ iso.sweeper = "idle"
    /\ iso' = [iso EXCEPT !.sweeper = IF raised THEN "idle" ELSE "sweeping",
                          !.given = IF raised THEN <<>> ELSE list,
                          !.todo = IF raised THEN <<>> ELSE list,
                          !.handled = {}, !.faulted = {},
                          !.sweeps = Min(@ + 1, MaxSweeps)]
    /\ UNCHANGED <<lifecycleVars, tpCalc, pm, avgCall, sweepVars, cancelVars,
                 wsm, gen, race, guard>>

\* one iteration of the for loop at lines 87-88
SweepCancelOne(raised) ==
    /\ iso.sweeper = "sweeping" /\ iso.todo # <<>>
    /\ iso' = [iso EXCEPT !.todo = AfterCancel(@, raised),
                          !.handled = @ \cup {Head(iso.todo)},
                          !.faulted = IF raised THEN @ \cup {Head(iso.todo)}
                                      ELSE @]
    /\ UNCHANGED <<lifecycleVars, tpCalc, pm, avgCall, sweepVars, cancelVars,
                 wsm, gen, race, guard>>

\* the for loop is over: _check_timeout_orders returns and start sleeps
SweepEnd ==
    /\ iso.sweeper = "sweeping" /\ iso.todo = <<>>
    /\ iso' = [iso EXCEPT !.sweeper = "idle"]
    /\ UNCHANGED <<lifecycleVars, tpCalc, pm, avgCall, sweepVars, cancelVars,
                 wsm, gen, race, guard>>

\* ------------------------------------------------- client order id strings
\* utils.helpers.generate_order_id on strings, with the timestamp it reads
\* from time.time() as an argument (counter is always 1)
short_strategy(strategy_name) ==
    IF Len(strategy_name) > 3 THEN SubSeq(strategy_name, 1, 3) ELSE strategy_name
short_symbol(symbol) == SubSeq(symbol, 1, Min(6, Len(symbol)))
side_char(side) == IF side = "BUY" THEN "B" ELSE "S"
timestamp_short(timestamp) == timestamp % 10000

\* the id before the length test
client_order_id(strategy_name, symbol, side, timestamp) ==
    short_strategy(strategy_name) \o "_" \o short_symbol(symbol) \o "_"
    \o side_char(side) \o ToString(timestamp_short(timestamp)) \o "_1"

\* generate_order_id, lines 99-106: an id of more than 30 characters is built
\* again from two and four characters
generate_order_id_string(strategy_name, symbol, side, timestamp) ==
    IF Len(client_order_id(strategy_name, symbol, side, timestamp)) > 30
    THEN client_order_id(SubSeq(short_strategy(strategy_name), 1, 2),
                         SubSeq(symbol, 1, Min(4, Len(symbol))), side, timestamp)
    ELSE client_order_id(strategy_name, symbol, side, timestamp)

\* client_order_id.startswith('V69_')
HasSystemPrefix(id) == Len(id) >= 4 /\ SubSeq(id, 1, 4) = "V69_"

\* the strategy names a webhook can carry ('strategy_name' of the signal),
\* the symbols and the times of the calls
StrategyNames == {"V69", "V69_reversal", "reversal", "tv"}
IdSymbols == {"BTCUSDT", "ETHUSDT"}
Sides == {"BUY", "SELL"}
Timestamps == {1700000000, 1700000001, 1700010000}

NoGen == [n |-> 0, id |-> "", timestamp |-> 0, prevId |-> "",
          prevTimestamp |-> 0]

\* handle_new_position_order, lines 902-909: the id of one more submission
GenerateId(strategy_name, symbol, side, timestamp) ==
    /\ timestamp >= gen.timestamp
    /\ gen' = [n |-> Min(gen.n + 1, 2),
               id |-> generate_order_id_string(strategy_name, symbol, side,
                                               timestamp),
               timestamp |-> timestamp,
               prevId |-> gen.id, prevTimestamp |-> gen.timestamp]
    /\ UNCHANGED <<lifecycleVars, tpCalc, pm, avgCall, sweepVars, cancelVars,
                   wsm, iso, race, guard>>

\* ------------------------------------------- submission against fill event
\* handle_new_position_order runs in the HTTP thread (race.http) and
\* on_message in the stream thread (race.stream); each step below is one
\* read or write of the registry or one gateway call, and the steps of the
\* two threads interleave freely.  The event exists once the order is at the
\* exchange.  race.last names the thread that took the last step.
RaceId == generate_order_id("V69", "BTCUSD", "B1")
NoRace ==
    [http |-> "start", stream |-> "none", exch |-> "NONE", orders |-> <<>>,
     exits |-> <<>>, accepted |-> FALSE, price |-> 0,
     gw |-> [tp |-> FALSE, sl |-> FALSE, net |-> {}], result |-> "-",
     last |-> "-"]
\* the registry and the exchange as the running handler finds them
RaceSt == [orders |-> race.orders, exits |-> race.exits, calls |-> {},
           rechecks |-> 0]
Put(st) == [race EXCEPT !.orders = st.orders, !.exits = st.exits]

\* handle_new_position_order, lines 916-932: the PENDING record with
\* waiting_for_api_response set
WaitingRecord(price) == [waiting_for_api_response |-> TRUE] @@ PendingRecord(price)

RaceRecord(type) ==
    /\ race.http = "start"
    /\ race' = [race EXCEPT
                  !.http = "recorded", !.last = "http",
                  !.orders = RaceId :> WaitingRecord(IF type = "LIMIT"
                                                     THEN LimitPx ELSE 0)]
    /\ UNCHANGED <<lifecycleVars, calcExceptRace>>

\* create_order, line 73: binance_client.place_order
RaceGateway(ok) ==
    /\ race.http = "recorded"
    /\ race' = [race EXCEPT !.http = "responded", !.accepted = ok,
                            !.last = "http",
                            !.exch = IF ok THEN "NEW" ELSE @]
    /\ UNCHANGED <<lifecycleVars, calcExceptRace>>

\* the update after the response that writes the record as it was before
\* the call
api_response_rewrite(ord, id, order_result) ==
    IF order_result /\ id \in DOMAIN ord /\ ord[id].waiting_for_api_response
    THEN [ord EXCEPT ![id] = [WaitingRecord(ord[id].price) EXCEPT
                                 !.waiting_for_api_response = FALSE]]
    ELSE ord

\* create_order, lines 75-81: the update after the response
api_response(ord, id, order_result) ==
    IF order_result /\ id \in DOMAIN ord /\ ord[id].waiting_for_api_response
    THEN [ord EXCEPT ![id].waiting_for_api_response = FALSE]
    ELSE ord

\* create_order, lines 75-83, and handle_new_position_order, lines 953-975
RaceResponse ==
    /\ race.http = "responded"
    /\ race' = [race EXCEPT
                  !.http = "returned", !.last = "http",
                  !.orders = api_response(@, RaceId, race.accepted),
                  !.result = IF race.accepted THEN "success" ELSE "error"]
    /\ UNCHANGED <<lifecycleVars, calcExceptRace>>

\* the exchange fills the order and the stream thread receives the FILLED
\* event; price is the event's fill price, tp / sl what the gateway will
\* answer to the two placements
RaceFill(price, tp, sl) ==
    /\ race.exch = "NEW" /\ race.stream = "none"
    /\ race' = [race EXCEPT !.exch = "FILLED", !.stream = "event",
                            !.last = "stream",
                            !.price = price,
                            !.gw = [tp |-> tp, sl |-> sl, net |-> {}]]
    /\ UNCHANGED <<lifecycleVars, calcExceptRace>>

\* on_message, lines 206-221, and handle_order_filled, lines 113-119: the
\* record is read, validated and tested for a fill already handled
RaceCheck ==
    /\ race.stream = "event"
    /\ race' = [race EXCEPT !.last = "stream", !.stream =
                  IF ~validate_order_record_relaxed(race.orders[RaceId])
                  THEN "returned"
                  ELSE IF race.orders[RaceId].status = "FILLED"
                          /\ race.orders[RaceId].tp_placed
                  THEN "returned"
                  ELSE "checked"]
    /\ UNCHANGED <<lifecycleVars, calcExceptRace>>

\* handle_order_filled, lines 129-136
RaceMark ==
    /\ race.stream = "checked"
    /\ \E r \in {Put(MarkFilled(RaceSt, RaceId, race.price, FALSE))} :
          race' = [r EXCEPT !.stream = "marked", !.last = "stream"]
    /\ UNCHANGED <<lifecycleVars, calcExceptRace>>

\* place_tp_order, lines 229-316: the gateway call and the record of it
RaceTp ==
    /\ race.stream = "marked"
    /\ \E r \in {Put(RecordTp(Place(RaceSt, GenerateTpOrderId(race.exits, RaceId),
                                     race.gw.tp),
                               RaceId, GenerateTpOrderId(race.exits, RaceId),
                               race.gw.tp))} :
          race' = [r EXCEPT !.stream = "tp", !.last = "stream"]
    /\ UNCHANGED <<lifecycleVars, calcExceptRace>>

\* place_tp_order, lines 318-322: place_sl_order
RaceSl ==
    /\ race.stream = "tp"
    /\ \E r \in {Put(ThenStopLoss(RaceSt, RaceId, race.gw))} :
          race' = [r EXCEPT !.stream = "sl", !.last = "stream"]
    /\ UNCHANGED <<lifecycleVars, calcExceptRace>>

\* on_message, line 249: _update_order_status_with_db_sync
RaceStatus ==
    /\ race.stream = "sl"
    /\ \E r \in {Put(StatusStep(RaceSt, RaceId, "FILLED"))} :
          race' = [r EXCEPT !.stream = "returned", !.last = "stream"]
    /\ UNCHANGED <<lifecycleVars, calcExceptRace>>

NextRace ==
    \/ \E type \in {"LIMIT", "MARKET"} : RaceRecord(type)
    \/ \E ok \in BOOLEAN : RaceGateway(ok)
    \/ RaceResponse
    \/ \E price \in {AvgPx, LastPx}, tp \in BOOLEAN, sl \in BOOLEAN :
          RaceFill(price, tp, sl)
    \/ RaceCheck
    \/ RaceMark
    \/ RaceTp
    \/ RaceSl
    \/ RaceStatus

\* -------------------------------------------------------- processing guard
\* handle_order_filled, lines 104-186, one line group per step, for
\* invocations that may overlap
Invocations == {1, 2}
GuardIds == {"V69_BTCUSD_B1_1", "V69_ETHUSD_S1_1"}
\* the ways the guarded block of lines 112-177 ends: the early return of line
\* 121, its last statement, an exception
BlockEnds == {"processed", "completed", "raised"}
calcExceptGuard ==
    <<tpCalc, pm, avgCall, sweepVars, cancelVars, wsm, iso, gen, race>>

\* OrderManager.__init__: processing_orders = set()
NoGuard ==
    [processing_orders |-> {},
     pc  |-> [i \in Invocations |-> "idle"],
     id  |-> [i \in Invocations |-> "none"],
     end |-> [i \in Invocations |-> "none"]]

\* invocation i moves to pc, having ended as end
GuardAt(g, i, pc, end) == [g EXCEPT !.pc[i] = pc, !.end[i] = end]

\* self.processing_orders.discard(client_order_id) of the finally clause
DiscardInFinally_notOnReturn(g, i) ==
    IF g.end[i] = "processed"
    THEN g
    ELSE [g EXCEPT !.processing_orders = @ \ {g.id[i]}]

DiscardInFinally(g, i) ==
    [g EXCEPT !.processing_orders = @ \ {g.id[i]}]

\* self.processing_orders.discard(client_order_id) of the except clause
DiscardInExcept(g, i) ==
    [g EXCEPT !.processing_orders = @ \ {g.id[i]}]

\* handle_order_filled is entered for client_order_id oid
GuardCall(i, oid) ==
    /\ guard.pc[i] = "idle"
    /\ guard' = GuardAt([guard EXCEPT !.id[i] = oid],
                        i, "test", "none")
    /\ UNCHANGED <<lifecycleVars, calcExceptGuard>>

\* lines 106-108: the id is being processed, return
GuardSkip(i) ==
    /\ guard.pc[i] = "test"
    /\ guard.id[i] \in guard.processing_orders
    /\ guard' = GuardAt(guard, i, "idle", "skipped")
    /\ UNCHANGED <<lifecycleVars, calcExceptGuard>>

\* line 106: the id is not being processed, go on
GuardPass(i) ==
    /\ guard.pc[i] = "test"
    /\ guard.id[i] \notin guard.processing_orders
    /\ guard' = GuardAt(guard, i, "add", "none")
    /\ UNCHANGED <<lifecycleVars, calcExceptGuard>>

\* line 110: self.processing_orders.add(oid)
GuardAdd(i) ==
    /\ guard.pc[i] = "add"
    /\ guard' = GuardAt([guard EXCEPT !.processing_orders = @ \cup {guard.id[i]}],
                        i, "block", "none")
    /\ UNCHANGED <<lifecycleVars, calcExceptGuard>>

\* lines 112-177: the guarded block ends
GuardBlock(i, end) ==
    /\ guard.pc[i] = "block"
    /\ guard' = GuardAt(guard, i, "finally", end)
    /\ UNCHANGED <<lifecycleVars, calcExceptGuard>>

\* lines 178-180: the finally clause; an exception goes on to the handler
GuardFinally(i) ==
    /\ guard.pc[i] = "finally"
    /\ guard' = GuardAt(DiscardInFinally(guard, i), i,
                        IF guard.end[i] = "raised" THEN "except" ELSE "idle",
                        guard.end[i])
    /\ UNCHANGED <<lifecycleVars, calcExceptGuard>>

\* lines 182-186: the handler of the outer try
GuardExcept(i) ==
    /\ guard.pc[i] = "except"
    /\ guard' = GuardAt(DiscardInExcept(guard, i), i, "idle", "raised")
    /\ UNCHANGED <<lifecycleVars, calcExceptGuard>>

\* OrderManager.clear_processing_order
clear_processing_order(oid) ==
    /\ guard' = [guard EXCEPT !.processing_orders = @ \ {oid}]
    /\ UNCHANGED <<lifecycleVars, calcExceptGuard>>

NextGuard ==
    \/ \E i \in Invocations, id \in GuardIds : GuardCall(i, id)
    \/ \E i \in Invocations : GuardSkip(i)
    \/ \E i \in Invocations : GuardPass(i)
    \/ \E i \in Invocations : GuardAdd(i)
    \/ \E i \in Invocations, end \in BlockEnds : GuardBlock(i, end)
    \/ \E i \in Invocations : GuardFinally(i)
    \/ \E i \in Invocations : GuardExcept(i)
    \/ \E id \in GuardIds : clear_processing_order(id)

\* -------------------------------------------------------------------- state
\* lastOp observes the handler that ran last: the order id of its event or
\* argument, the exit it took, and whether it sent place / cancel requests
\* to the gateway.  A step of the exchange is observed as "exchange".
Op(op, id, status, path, price, calls, ret) ==
    [op |-> op, id |-> id, path |-> path,
     placed |-> \E c \in calls : c[1] = "place",
     canceled |-> \E c \in calls : c[1] = "cancel"]

Init ==
    /\ orders = <<>>
    /\ exch = [i \in EntryIds |-> "NONE"]
    /\ exits = <<>>
    /\ http = [pc |-> "idle", id |-> NoId]
    /\ lastOp = Op("init", NoId, "-", "-", 0, {}, 0)
    /\ tpCalc = NoTpCalc /\ pm = NoMemory /\ avgCall = NoCall
    /\ swCheck = NoCheck
    /\ keys = <<>> /\ cxl = NoCancel
    /\ wsm = Started
    /\ iso = Threads
    /\ gen = NoGen
    /\ race = NoRace
    /\ guard = NoGuard

IsOpen(X) == X \in {"NEW", "PARTIALLY_FILLED"}

\* the registry and the exchange as a handler finds them
Cur == [orders |-> orders, exits |-> exits, calls |-> {}, rechecks |-> 0]

\* handle_new_position_order, lines 904-932: generate the id and write the
\* PENDING record (an existing record under the same id is replaced)
SubmitRecord(g, type) ==
    /\ http.pc = "idle"
    /\ LET id == generate_order_id(g[1], g[2], g[3])
       IN /\ orders' = (id :> PendingRecord(IF type = "LIMIT" THEN LimitPx ELSE 0))
                         @@ orders
          /\ http' = [pc |-> "recorded", id |-> id]
          /\ lastOp' = Op("submit_record", id, "-", "-", 0, {}, 0)
    /\ UNCHANGED <<exch, exits, calcVars>>

\* create_order, lines 73-83, and the return of handle_new_position_order:
\* the gateway call (the exchange rejects a client id that is still open)
\* and the success / error result
SubmitGateway(ok) ==
    /\ http.pc = "recorded"
    /\ ok => ~IsOpen(exch[http.id])
    /\ exch' = IF ok THEN [exch EXCEPT ![http.id] = "NEW"] ELSE exch
    /\ http' = [pc |-> "idle", id |-> NoId]
    /\ lastOp' = Op("submit_gateway", http.id, "-",
                    IF ok THEN "success" ELSE "error", 0,
                    {<<"place", http.id>>}, 0)
    /\ UNCHANGED <<orders, exits, calcVars>>

\* handle_add_position_order (chosen by _create_and_execute_order when the
\* account holds a position in the symbol): the id is generated and the
\* gateway is called; the registry is not written
SubmitAdd(g, ok) ==
    /\ http.pc = "idle"
    /\ ok => ~IsOpen(exch[generate_order_id(g[1], g[2], g[3])])
    /\ exch' = IF ok THEN [exch EXCEPT ![generate_order_id(g[1], g[2], g[3])] = "NEW"]
               ELSE exch
    /\ lastOp' = Op("submit_add", generate_order_id(g[1], g[2], g[3]), "-",
                    IF ok THEN "success" ELSE "error", 0,
                    {<<"place", generate_order_id(g[1], g[2], g[3])>>}, 0)
    /\ UNCHANGED <<orders, exits, http, calcVars>>

\* an order an earlier run of the bot left on the account: it is at the
\* exchange under a system id, and this run's registry has no record of it
ExternalPlace(id) ==
    /\ exch[id] = "NONE"
    /\ id \notin DOMAIN orders
    /\ exch' = [exch EXCEPT ![id] = "NEW"]
    /\ lastOp' = Op("exchange", NoId, "-", "-", 0, {}, 0)
    /\ UNCHANGED <<orders, exits, http, calcVars>>

\* the exchange matches, expires or cancels an open entry order
ExchangeUpdate(id, X) ==
    /\ \/ exch[id] = "NEW" /\ X \in {"PARTIALLY_FILLED", "FILLED", "CANCELED"}
       \/ exch[id] = "PARTIALLY_FILLED" /\ X \in {"FILLED", "CANCELED"}
    /\ exch' = [exch EXCEPT ![id] = X]
    /\ lastOp' = Op("exchange", NoId, "-", "-", 0, {}, 0)
    /\ UNCHANGED <<orders, exits, http, calcVars>>

\* the exchange fills an open take-profit or stop-loss order
ExchangeFillExit(x) ==
    /\ exits[x] = "open"
    /\ exits' = [exits EXCEPT ![x] = "filled"]
    /\ lastOp' = Op("exchange", NoId, "-", "-", 0, {}, 0)
    /\ UNCHANGED <<orders, exch, http, calcVars>>

\* the stream thread runs on_message for one event; gw is what the gateway
\* answers to the requests the handler sends
Deliver(id, X, ap, L, p, gw) ==
    \E r \in {on_message(Cur, id, X, ap, L, p, gw)} :
        /\ gw.late.at # 0 => r.rechecks = gw.late.at
        /\ orders' = r.orders
        /\ exits' = r.exits
        /\ lastOp' = Op("on_message", id, X, r.path, r.price, r.calls, 0)

\* the stream delivers (or re-delivers) the current state of an entry order
\* (late: handle_new_position_order writes its record under the same id
\* while on_message waits)
StreamEntryEvent(id, ap, L, p, tp, sl, late) ==
    /\ exch[id] # "NONE"
    /\ (tp \/ sl) => Cardinality(DOMAIN exits) + 2 <= MaxExits + 1
    /\ (tp /\ sl) => Cardinality(DOMAIN exits) + 2 <= MaxExits
    /\ late.at # 0 => http.pc = "idle"
    /\ Deliver(id, exch[id], ap, L, p,
               [tp |-> tp, sl |-> sl, net |-> {}, late |-> late])
    /\ http' = IF late.at # 0 THEN [pc |-> "recorded", id |-> id] ELSE http
    /\ UNCHANGED <<exch, calcVars>>

\* the stream delivers an event of an order the account holder placed by
\* hand; the model does not track these orders at the exchange
\* (the gateway accepts every request the handler sends meanwhile)
StreamManualEvent(id, X, ap, L, p) ==
    /\ Cardinality(DOMAIN exits) + 2 <= MaxExits
    /\ Deliver(id, X, ap, L, p,
               [tp |-> TRUE, sl |-> TRUE, net |-> DOMAIN exits, exc |-> {},
                late |-> NoLate])
    /\ UNCHANGED <<exch, http, calcVars>>

ExitStatus(s) == IF s = "open" THEN "NEW" ELSE IF s = "filled" THEN "FILLED"
                 ELSE "CANCELED"

\* the stream delivers (or re-delivers) the current state of an exit order
\* (net, exc: the cancel requests that get through / that raise)
StreamExitEvent(x, ap, L, p, net, exc) ==
    /\ x \in DOMAIN exits
    /\ Deliver(x, ExitStatus(exits[x]), ap, L, p,
               [tp |-> FALSE, sl |-> FALSE, net |-> net, exc |-> exc,
                late |-> NoLate])
    /\ UNCHANGED <<exch, http, calcVars>>

\* POST /cancel/<symbol>; netE / net are the entry / exit cancels that get
\* through
CancelRoute(symbol, netE, net) ==
    /\ \E r \in {cancel_symbol_orders(
                    [orders |-> orders, exits |-> exits, calls |-> {}], symbol, net)} :
          /\ orders' = r.orders
          /\ exits' = r.exits
          /\ lastOp' = Op("cancel_route", <<symbol>>, "-", "-", 0, r.calls, r.count)
    /\ exch' = [e \in DOMAIN exch |->
                  IF e \in RouteEntryTargets(orders, symbol) /\ e \in netE
                     /\ IsOpen(exch[e])
                  THEN "CANCELED" ELSE exch[e]]
    /\ UNCHANGED <<http, calcVars>>

\* one pass of OrderTimeoutManager._check_timeout_orders, lines 83-88;
\* timedOut stands for timeout_orders, the checked entries handed to
\* _cancel_timeout_order (lastOp.id names the entry, if there is one)
Sweep(timedOut) ==
    /\ timedOut \subseteq {e \in DOMAIN orders : should_check_order(orders, e)}
    /\ exch' = [e \in DOMAIN exch |->
                  IF e \in SweepCancels(orders, exch, timedOut) /\ IsOpen(exch[e])
                  THEN "CANCELED" ELSE exch[e]]
    /\ lastOp' = Op("sweep",
                    IF timedOut = {} THEN NoId ELSE CHOOSE e \in timedOut : TRUE,
                    "-", "-", 0,
                    {<<"cancel", e>> : e \in SweepCancels(orders, exch, timedOut)}, 0)
    /\ UNCHANGED <<orders, exits, http, calcVars>>

Next ==
    \/ \E g \in Signals, type \in {"LIMIT", "MARKET"} : SubmitRecord(g, type)
    \/ \E ok \in BOOLEAN : SubmitGateway(ok)
    \/ \E g \in Signals, ok \in BOOLEAN : SubmitAdd(g, ok)
    \/ \E id \in EntryIds : ExternalPlace(id)
    \/ \E id \in EntryIds, X \in EntryStatuses : ExchangeUpdate(id, X)
    \/ \E x \in DOMAIN exits : ExchangeFillExit(x)
    \/ \E id \in EntryIds, c \in PriceCases, tp \in BOOLEAN, sl \in BOOLEAN,
          late \in Lates :
          StreamEntryEvent(id, c[1], c[2], c[3], tp, sl, late)
    \/ \E id \in ManualIds, X \in {"NEW", "FILLED"}, c \in PriceCases :
          StreamManualEvent(id, X, c[1], c[2], c[3])
    \/ \E x \in DOMAIN exits, c \in PriceCases, net \in {{}, DOMAIN exits},
          exc \in {{}, DOMAIN exits} :
          StreamExitEvent(x, c[1], c[2], c[3], net, exc)
    \/ \E symbol \in Symbols, netE \in {{}, EntryIds}, net \in {{}, DOMAIN exits} :
          CancelRoute(symbol, netE, net)
    \/ \E timedOut \in SUBSET DOMAIN orders : Sweep(timedOut)

Spec == Init /\ [][Next]_vars

\* one submission against the handling of its FILLED event
SpecRace == Init /\ [][NextRace]_vars

\* the prices and sides of the exit orders on their own
SpecExit == Init /\ [][NextExit]_vars
SpecGuard == Init /\ [][NextGuard]_vars

\* the take-profit offset computation on its own
NextTp ==
    \E basis \in TpBases, explicit \in TpExplicit, atr \in TpAtr,
       mult \in TpMultipliers : PlaceTpOffset(basis, explicit, atr, mult)

SpecTp == Init /\ [][NextTp]_vars

\* the sweeper's timeout test on its own
NextTimeout ==
    \E id \in TimeoutIds, status \in TimeoutStatuses, age \in TimeoutAges,
       now \in SweepTimes : CheckTimeout(id, status, age, now)

SpecTimeout == Init /\ [][NextTimeout]_vars

\* ------------------------------------------- cancel-for-symbol on its own
CancelIds == {<<"V69", "BTCUSD", "B1", "1">>, <<"V69", "BTCUSD", "S2", "1">>}

\* the ids a call for the symbol would request
Targets(ord, symbol, k) ==
    {RefOf(ord[e], k) : e \in {d \in DOMAIN ord : SymbolOf(d) = symbol
                                                  /\ Flagged(ord[d], k)}}

\* handle_order_filled for an entry the registry does not know: the record
\* is appended to self.orders and its take-profit and stop-loss are placed
\* (tp, sl: the gateway's answers to the two placements)
FillEntry(e, tp, sl) ==
    /\ e \notin DOMAIN orders
    /\ \E r \in {handle_order_filled(Cur, e, AvgPx, ExecQty("FILLED"), FALSE,
                                      [tp |-> tp, sl |-> sl, net |-> {}])} :
          /\ orders' = r.orders
          /\ exits' = r.exits
    /\ keys' = Append(keys, e)
    /\ cxl' = NoCancel
    /\ lastOp' = Op("fill", e, "-", "-", 0, {}, 0)
    /\ UNCHANGED <<exch, http, tpCalc, pm, avgCall, sweepVars, wsm, iso, gen, race, guard>>

\* one call of cancel_existing_tp_orders_for_symbol (k = "T") or
\* cancel_existing_sl_orders_for_symbol (k = "S")
CancelForSymbol(symbol, k) ==
    /\ \E ans \in [Targets(orders, symbol, k) -> Answers] :
        \E r \in {cancel_existing_orders_for_symbol(Cur, keys, symbol, k, ans)} :
          /\ orders' = r.orders
          /\ exits' = r.exits
          /\ cxl' = [done |-> TRUE, symbol |-> symbol, k |-> k, ans |-> ans,
                     sent |-> r.sent, count |-> r.count]
    /\ lastOp' = Op("cancel_for_symbol", <<symbol>>, "-", "-", 0, {}, 0)
    /\ UNCHANGED <<exch, http, keys, tpCalc, pm, avgCall, sweepVars, wsm,
                 iso, gen, race, guard>>

NextCancel ==
    \/ \E e \in CancelIds, tp \in BOOLEAN, sl \in BOOLEAN : FillEntry(e, tp, sl)
    \/ \E x \in DOMAIN exits : ExchangeFillExit(x)
    \/ \E symbol \in Symbols, k \in {"T", "S"} : CancelForSymbol(symbol, k)

SpecCancel == Init /\ [][NextCancel]_vars

\* the start loop on its own
NextStart ==
    \/ \E res \in KeyResults : GetListenKey(res)
    \/ Connect
    \/ \E kind \in EndKinds, d \in Durations : ConnectionEnd(kind, d)
    \/ \E res \in RenewResults : KeepAlive(res)
    \/ Sleep

\* the thread that runs start keeps running (weak fairness of its steps); the
\* gateway returns a listen key in the end (strong fairness of that answer)
SpecStart ==
    /\ Init /\ [][NextStart]_vars
    /\ WF_vars(Connect) /\ WF_vars(Sleep)
    /\ SF_vars(GetListenKey("key"))

\* the start loop while the gateway never returns a listen key
NextNoKey ==
    \/ \E res \in {"none", "raise"} : GetListenKey(res)
    \/ Sleep

\* the thread that runs start keeps running
SpecNoKey ==
    /\ Init /\ [][NextNoKey]_vars
    /\ WF_vars(\E res \in {"none", "raise"} : GetListenKey(res))
    /\ WF_vars(Sleep)

\* the two threads on their own
NextIsolation ==
    \/ \E raised \in BOOLEAN : StreamMessage(raised)
    \/ \E list \in TimeoutLists, raised \in BOOLEAN : SweepBegin(list, raised)
    \/ \E raised \in BOOLEAN : SweepCancelOne(raised)
    \/ SweepEnd

SpecIsolation == Init /\ [][NextIsolation]_vars

\* the id generator on its own
NextIds ==
    \E strategy_name \in StrategyNames, symbol \in IdSymbols, side \in Sides,
       timestamp \in Timestamps :
          GenerateId(strategy_name, symbol, side, timestamp)

SpecIds == Init /\ [][NextIds]_vars

\* the position tracker on its own
NextAvg ==
    \E first \in PositionReads, second \in PositionReads,
       avg_price \in EntryPrices, new_price \in NewPrices,
       new_quantity \in NewQuantities, recent \in BOOLEAN :
          Calculate(first, second, avg_price, new_price, new_quantity, recent)

SpecAvg == Init /\ [][NextAvg]_vars

\* ------------------------------------------------------ lifecycle properties
HandledFill(e) == e \in DOMAIN orders /\ orders[e].status = "FILLED"
                  /\ orders[e].tp_placed
Gateways == [tp : BOOLEAN, sl : BOOLEAN, net : {{}, DOMAIN exits},
             late : {NoLate}]

\* C1: for an entry whose record has status FILLED and tp_placed, a further
\* FILLED delivery - a direct call of handle_order_filled or a FILLED event
\* through on_message, at any fill price and whatever the gateway would
\* answer - sends no place request and leaves the registry and the exchange
\* orders as they are.
C1_IdempotentFill ==
    \A e \in DOMAIN orders : HandledFill(e) =>
        \A price \in {AvgPx, LastPx}, gw \in Gateways :
            /\ handle_order_filled(Cur, e, price, ExecQty("FILLED"),
                                   orders[e].is_add_position, gw) = Cur
            /\ \A r \in {on_message(Cur, e, "FILLED", price, LastPx, LimitPx, gw)} :
                  r.orders = orders /\ r.exits = exits /\ r.calls = {}

\* C1 witness: a repeated FILLED event of a handled entry has been processed
C1_Witness ==
    /\ lastOp.op = "on_message" /\ lastOp.path = "duplicate"
    /\ HandledFill(lastOp.id)
    /\ ExitsOf(exits, lastOp.id, "T") # {} /\ ExitsOf(exits, lastOp.id, "S") # {}

\* C2: in every reachable state, every entry record has at most one open
\* take-profit order and at most one open stop-loss order at the exchange.
C2_OneOpenExitPerKind ==
    \A e \in DOMAIN orders :
        /\ Cardinality(OpenExitsOf(exits, e, "T")) <= 1
        /\ Cardinality(OpenExitsOf(exits, e, "S")) <= 1

AfterFill == {"TP_FILLED", "SL_FILLED"}

\* C3: once a record's status is TP_FILLED or SL_FILLED, no stream event sets
\* it back to FILLED or to an earlier status (PENDING, NEW, PARTIALLY_FILLED).
C3_NoReturnToFilled ==
    [][lastOp'.op = "on_message" =>
         \A e \in DOMAIN orders : orders[e].status \in AfterFill =>
            orders'[e].status \in AfterFill]_vars

\* C4: once an entry is marked TP_FILLED no later event marks it SL_FILLED,
\* and once it is marked SL_FILLED no later event marks it TP_FILLED.
C4_MutuallyExclusive ==
    [][\A e \in DOMAIN orders :
         /\ orders[e].status = "TP_FILLED" =>
               ~(e \in DOMAIN orders' /\ orders'[e].status = "SL_FILLED")
         /\ orders[e].status = "SL_FILLED" =>
               ~(e \in DOMAIN orders' /\ orders'[e].status = "TP_FILLED")]_vars

BothPlaced(e) == e \in DOMAIN orders /\ orders[e].tp_placed /\ orders[e].sl_placed

\* C5: when the FILLED event of a take-profit (stop-loss) order of an entry
\* with both orders placed has been processed, a cancel request for the
\* sibling has been sent and the record's sl_placed (tp_placed) is false.
C5_SiblingFlagCleared ==
    [][(lastOp'.op = "on_message" /\ lastOp'.path \in {"tp_filled", "sl_filled"}
        /\ Len(lastOp'.id) = 6 /\ BothPlaced(EntryPart(lastOp'.id))) =>
          /\ lastOp'.canceled
          /\ lastOp'.path = "tp_filled" => ~orders'[EntryPart(lastOp'.id)].sl_placed
          /\ lastOp'.path = "sl_filled" => ~orders'[EntryPart(lastOp'.id)].tp_placed
      ]_vars

TpRejectedStep ==
    /\ lastOp'.op = "on_message" /\ lastOp'.path = "filled" /\ lastOp'.placed
    /\ ExitsOf(exits', lastOp'.id, "T") = ExitsOf(exits, lastOp'.id, "T")
\* the step is a fill handling of entry e that placed its take-profit
TpPlacedStep(e) ==
    /\ lastOp'.op = "on_message" /\ lastOp'.path = "filled" /\ lastOp'.id = e
    /\ ExitsOf(exits', e, "T") # ExitsOf(exits, e, "T")
FilledNoTp(ord, e) ==
    e \in DOMAIN ord /\ ord[e].status = "FILLED" /\ ~ord[e].tp_placed

\* C16: if the gateway rejects the take-profit placement while an entry fill
\* is handled, the entry record has status FILLED and tp_placed = false on
\* return, and this state persists until a later fill handling succeeds
\* (for as long as the id stands for the filled order: no new submission
\* under the same id).
SameOrder(e) == exch[e] = "FILLED" /\ lastOp'.op # "submit_record"
C16_TpRejectedPersists ==
    [][/\ TpRejectedStep => FilledNoTp(orders', lastOp'.id)
       /\ \A e \in DOMAIN orders :
            (FilledNoTp(orders, e) /\ SameOrder(e)) =>
               (FilledNoTp(orders', e) \/ TpPlacedStep(e))
      ]_vars

\* C16 as amended: if the gateway rejects the take-profit placement while an
\* entry fill is handled, the entry record has status FILLED and tp_placed =
\* false on return, and tp_placed stays false until a later fill handling of
\* the entry places the take-profit.  (The status does not persist: the
\* stop-loss order is placed all the same, and its fill sets SL_FILLED.)
C16_TpRejectedKeepsFlag ==
    [][/\ TpRejectedStep => FilledNoTp(orders', lastOp'.id)
       /\ \A e \in DOMAIN orders :
            (~orders[e].tp_placed /\ e \in DOMAIN orders' /\ orders'[e].tp_placed)
               => TpPlacedStep(e)
      ]_vars

\* C16 witness: an entry fill has been handled with the take-profit rejected
\* and the stop-loss accepted
C16_Witness ==
    /\ lastOp.op = "on_message" /\ lastOp.path = "filled" /\ lastOp.placed
    /\ FilledNoTp(orders, lastOp.id)
    /\ ExitsOf(exits, lastOp.id, "T") = {}
    /\ OpenExitsOf(exits, lastOp.id, "S") # {}

\* the entry has been submitted as a new position and accepted, the exchange
\* has filled it, and no event of it has been handled yet
SubmittedAndFilled(e) ==
    /\ e \in DOMAIN orders /\ orders[e] \in {PendingRecord(LimitPx), PendingRecord(0)}
    /\ http.pc = "idle" /\ exch[e] = "FILLED"
    /\ DOMAIN exits = {}

\* C17: for a new-position entry with a system id (LIMIT or MARKET) and no
\* existing position, submission followed by one FILLED event with a positive
\* price, the gateway accepting every call, places exactly two dependent
\* orders, one take-profit and one stop-loss, whose ids are derived from the
\* entry id and recorded as tp_client_id and sl_client_id on the entry record.
C17_EndToEnd ==
    \A e \in EntryIds : SubmittedAndFilled(e) =>
        \A r \in {on_message(Cur, e, "FILLED", AvgPx, LastPx, LimitPx,
                             [tp |-> TRUE, sl |-> TRUE, net |-> {},
                              late |-> NoLate])} :
            /\ DOMAIN r.exits = {e \o <<1, "T">>, e \o <<1, "S">>}
            /\ r.calls = {<<"place", e \o <<1, "T">>>>, <<"place", e \o <<1, "S">>>>}
            /\ r.orders[e].tp_client_id = e \o <<1, "T">>
            /\ r.orders[e].sl_client_id = e \o <<1, "S">>

\* --------------------------------------------------- unknown-id properties
\* a FILLED event of e is due and the registry has no record of e
UnknownFill(e) == exch[e] = "FILLED" /\ e \notin DOMAIN orders
\* the writes the HTTP thread can make while the handler waits
LatesNow == {late \in Lates : late.at # 0 => http.pc = "idle"}
\* the handler's result went through fill handling and asked the gateway for
\* e's take-profit
FillHandled(r, e) ==
    /\ r.path = "filled"
    /\ e \in DOMAIN r.orders
    /\ \E c \in r.calls : c[1] = "place" /\ EntryPart(c[2]) = e /\ EndsWith(c[2], "T")

\* the bounded part: at most six re-checks, and a record that is still
\* absent after them is made from the event and handed to fill handling
StillAbsentIsFilled ==
    \A e \in EntryIds : UnknownFill(e) =>
        \A tp \in BOOLEAN, sl \in BOOLEAN :
            \A r \in {on_message(Cur, e, "FILLED", AvgPx, LastPx, LimitPx,
                                 [tp |-> tp, sl |-> sl, net |-> {},
                                  late |-> NoLate])} :
                /\ r.rechecks = Attempts
                /\ r.orders[e].price = AvgPx
                /\ FillHandled(r, e)

\* C26: if a FILLED event for a system-prefixed entry id arrives while the
\* registry has no record for it, the stream handler re-checks the registry
\* at most 6 times and then, if the record is still absent, synthesizes a
\* record from the event payload and proceeds to fill handling (take-profit
\* placement attempted); it never waits unboundedly and never drops the fill.
C26_UnknownIdFill ==
    \A e \in EntryIds : UnknownFill(e) =>
        \A tp \in BOOLEAN, sl \in BOOLEAN, late \in LatesNow :
            \A r \in {on_message(Cur, e, "FILLED", AvgPx, LastPx, LimitPx,
                                 [tp |-> tp, sl |-> sl, net |-> {},
                                  late |-> late])} :
                /\ r.rechecks <= Attempts
                /\ FillHandled(r, e)

\* ------------------------------------------------- add-position properties
\* e is filled at the exchange and no take-profit is recorded for it
FilledWithoutTp(e) ==
    /\ exch[e] = "FILLED"
    /\ e \in DOMAIN orders => ~orders[e].tp_placed

\* C29: when an entry fill is handled with is_add_position = true, a
\* take-profit order is placed (on the average cost of the position tracker,
\* for the total position size).
C29_AddPositionTakeProfit ==
    \A e \in EntryIds : FilledWithoutTp(e) =>
        \A r \in {handle_order_filled(Cur, e, AvgPx, ExecQty("FILLED"), TRUE,
                                      [tp |-> TRUE, sl |-> TRUE, net |-> {}])} :
            \E c \in r.calls :
                c[1] = "place" /\ EntryPart(c[2]) = e /\ EndsWith(c[2], "T")

\* --------------------------------------------------- exit-fill properties
\* the filled exit orders that belong to a record of the registry
OwnedFilledExits(k) ==
    {x \in DOMAIN exits :
        /\ exits[x] = "filled" /\ Last(x) = k
        /\ (IF k = "T" THEN TpOwners(orders, x) ELSE SlOwners(orders, x)) # {}}
OwnerOf(x) ==
    IF Last(x) = "T" THEN CHOOSE o \in TpOwners(orders, x) : TRUE
    ELSE CHOOSE o \in SlOwners(orders, x) : TRUE
\* what the gateway does with the sibling's cancel request
ExitGateways ==
    [tp : {FALSE}, sl : {FALSE}, net : {{}, DOMAIN exits},
     exc : {{}, DOMAIN exits}, late : {NoLate}]
\* the FILLED event of x as on_message handles it
ExitFilled(x, gw) == on_message(Cur, x, "FILLED", AvgPx, LastPx, LimitPx, gw)
ClosedStatus(x) == IF Last(x) = "T" THEN "TP_FILLED" ELSE "SL_FILLED"

RaceOver ==
    /\ race.http = "returned" /\ race.stream = "returned"
    /\ race.accepted /\ race.gw.tp /\ race.gw.sl
    /\ race.orders[RaceId].price = LimitPx

\* C33: for a new-position LIMIT entry with a valid price, under every
\* interleaving of handle_new_position_order with the processing of that
\* order's FILLED event, the gateway accepting every call, the final record
\* has status FILLED with tp_placed = true and the take-profit
\* back-reference recorded; the HTTP thread's update after the response
\* leaves the fields the fill handler wrote as they are.
C33_RaceOutcome ==
    RaceOver =>
        /\ race.orders[RaceId].status = "FILLED"
        /\ race.orders[RaceId].tp_placed
        /\ race.orders[RaceId].tp_client_id = RaceId \o <<1, "T">>
        /\ race.orders[RaceId].sl_client_id = RaceId \o <<1, "S">>
        /\ race.orders[RaceId].actual_fill_price = race.price
        /\ race.orders[RaceId].executed_qty = ExecQty("FILLED")
        /\ ~race.orders[RaceId].waiting_for_api_response
        /\ race.result = "success"

\* C33 witness: the fill handler was through before the HTTP thread made
\* its update after the response
C33_Witness == RaceOver /\ race.last = "http"

\* ------------------------------------------------ closed-entry properties
\* the record of e says its position is closed
Closed(e) == e \in DOMAIN orders /\ orders[e].status \in {"TP_FILLED", "SL_FILLED"}
\* the step puts a new take-profit or stop-loss order of e on the exchange
PlacesExitFor(e) ==
    \E x \in DOMAIN exits' : x \notin DOMAIN exits /\ EntryPart(x) = e

\* C34: once an entry record has reached TP_FILLED or SL_FILLED, no further
\* take-profit or stop-loss order is placed for that entry, whatever stream
\* events arrive afterwards.
C34_NoExitAfterClose ==
    [][\A e \in EntryIds :
          (Closed(e) /\ lastOp'.op = "on_message") => ~PlacesExitFor(e)]_vars

\* ------------------------------------------------- status-event properties
\* the statuses of an entry event other than FILLED
NonFillStatuses == {"NEW", "PARTIALLY_FILLED", "CANCELED", "EXPIRED"}
\* the registry with the status and the executed quantity of e's event
StatusUpdated(e, X) ==
    IF e \in DOMAIN orders
    THEN [orders EXCEPT ![e].status = X, ![e].executed_qty = ExecQty(X)]
    ELSE orders

\* C35: take-profit and stop-loss placement is triggered only by a FILLED
\* event for the entry: NEW, PARTIALLY_FILLED, CANCELED and EXPIRED events
\* for an entry id only update the record's status and executed quantity and
\* never place or cancel any order.
C35_OnlyFilledPlaces ==
    \A e \in EntryIds, X \in NonFillStatuses, c \in PriceCases, gw \in Gateways :
        \A r \in {on_message(Cur, e, X, c[1], c[2], c[3], gw)} :
            /\ r.calls = {}
            /\ r.exits = exits
            /\ r.orders \in {orders, StatusUpdated(e, X)}
            /\ r.path = "status" => r.orders = StatusUpdated(e, X)

\* C35 witness: the event of a partial fill of a known entry has been
\* handled: the record has the status and the quantity, nothing was sent
C35_Witness ==
    /\ lastOp.op = "on_message" /\ lastOp.path = "status"
    /\ lastOp.id \in EntryIds /\ lastOp.id \in DOMAIN orders
    /\ orders[lastOp.id].status = "PARTIALLY_FILLED"
    /\ orders[lastOp.id].executed_qty = ExecQty("PARTIALLY_FILLED")
    /\ ~lastOp.placed /\ ~lastOp.canceled

\* --------------------------------------------- stop-loss reference properties
\* the registry names a stop-loss order for e
HasSl(e) == e \in DOMAIN orders /\ orders[e].sl_client_id # NoId
\* the step leaves the stop-loss reference of e as it is and puts no further
\* stop-loss order of e on the exchange
SlKept(e) ==
    /\ e \in DOMAIN orders'
    /\ orders'[e].sl_client_id = orders[e].sl_client_id
    /\ ExitsOf(exits', e, "S") = ExitsOf(exits, e, "S")

\* C37: the stop-loss back-reference sl_client_id of an entry record, once
\* set, is never changed or cleared by any operation; consequently at most
\* one stop-loss order is ever placed per entry record, and after that
\* stop-loss has been canceled a later fill handling of the same entry never
\* places a replacement.
C37_SlReferenceKept ==
    [][\A e \in EntryIds : HasSl(e) => SlKept(e)]_vars

\* the same for every step but the write of a new record under a reused id
SlReferenceKeptUnlessReplaced ==
    [][\A e \in EntryIds :
          (HasSl(e) /\ lastOp'.op # "submit_record") => SlKept(e)]_vars

\* --------------------------------------------- processing guard properties
\* no invocation of handle_order_filled is between its entry and its return
NoneInProgress == \A i \in Invocations : guard.pc[i] = "idle"
\* the step is the return of invocation i
Returns(i) == guard.pc[i] # "idle" /\ guard'.pc[i] = "idle"
\* invocation i put its id into processing_orders
HasAdded(i) == guard.pc[i] \in {"finally", "except"}

\* C38: the processing guard is always released: whenever no invocation of
\* handle_order_filled is in progress, processing_orders is empty; every exit
\* path of handle_order_filled (early return for an already-processed order,
\* normal completion, exception) removes the order id it added, and an
\* invocation that finds its id already in the set returns without removing
\* it.
C38_GuardReleased ==
    /\ [](NoneInProgress => guard.processing_orders = {})
    /\ [][\A i \in Invocations :
            /\ (Returns(i) /\ HasAdded(i))
                   => guard.id[i] \notin guard'.processing_orders
            /\ (Returns(i) /\ ~HasAdded(i))
                   => guard'.processing_orders = guard.processing_orders]_vars

\* one invocation has returned at line 108 and the other through the
\* exception handler, and none is in progress
C38_Witness ==
    /\ NoneInProgress
    /\ guard.end[1] = "skipped"
    /\ guard.end[2] = "raised"

\* ---------------------------------------------------- re-entry properties
\* the step is fill handling of an entry whose record already names a
\* take-profit or a stop-loss order, and it places an order
ReEntryPlaces ==
    /\ lastOp'.op = "on_message" /\ lastOp'.path = "filled" /\ lastOp'.placed
    /\ lastOp'.id \in DOMAIN orders
    /\ \/ orders[lastOp'.id].tp_client_id # NoId
       \/ orders[lastOp'.id].sl_client_id # NoId

\* C30: when fill handling runs for an entry that already has a take-profit
\* or stop-loss back-reference, the existing take-profit / stop-loss of that
\* entry is canceled before new ones are placed.
C30_DefensiveReEntry == [][ReEntryPlaces => lastOp'.canceled]_vars

\* ------------------------------------------------ price selection properties
\* the price fields an event can carry
EventPrices == {0, NegPx, Bad, NaN, LimitPx, AvgPx, LastPx}
\* x is a number greater than zero
Positive(x) == x \notin {Bad, NaN} /\ x > 0
\* the price the event's fields select
Selected(ap, L, p) == IF Positive(ap) THEN ap ELSE IF Positive(L) THEN L ELSE p

\* C19: for an entry FILLED event, the price passed to fill handling is the
\* average-fill price if it is positive, else the last-trade price if it is
\* positive, else the limit price; if the selected price is zero, negative or
\* not a number, handle_order_filled is not invoked, no take-profit or
\* stop-loss is placed and the registry is left unchanged.
C19_PriceSelection ==
    \A e \in {d \in EntryIds : exch[d] = "FILLED"},
       ap \in EventPrices, L \in EventPrices, p \in EventPrices :
        \A r \in {on_message(Cur, e, "FILLED", ap, L, p,
                             [tp |-> FALSE, sl |-> FALSE, net |-> {},
                              late |-> NoLate])} :
            /\ r.path = "filled" => r.price = Selected(ap, L, p)
            /\ ~Positive(Selected(ap, L, p)) =>
                  /\ r.path # "filled"
                  /\ r.calls = {}
                  /\ r.orders = orders

\* ----------------------------------------------- cancel-for-symbol properties
\* the step is a call of one of the two cancel-for-symbol methods
CancelStep == cxl'.done /\ lastOp'.op = "cancel_for_symbol"
\* the orders the call canceled at the exchange
Succeeded == {x \in DOMAIN exits : exits[x] = "open" /\ exits'[x] = "canceled"}
\* the same call once more, the gateway answering as before
Repeated ==
    cancel_existing_orders_for_symbol(
        [orders |-> orders', exits |-> exits', calls |-> {}],
        keys', cxl'.symbol, cxl'.k, cxl'.ans)

\* C18: after a cancel-for-symbol call has canceled an order, the order is no
\* longer flagged as placed, and an immediately repeated call for the symbol
\* sends no cancel request for it and returns 0; a cancel failure on one order
\* never prevents the remaining orders of the symbol from being attempted,
\* and the returned count equals the number of successful cancels.
C18_CancelRoundTrip ==
    [][CancelStep =>
         /\ \A e \in DOMAIN orders' :
               RefOf(orders'[e], cxl'.k) \in Succeeded
                  => ~Flagged(orders'[e], cxl'.k)
         /\ \A r \in {Repeated} : r.sent \cap Succeeded = {} /\ r.count = 0
         /\ cxl'.sent = Targets(orders, cxl'.symbol, cxl'.k)
         /\ cxl'.count = Cardinality(Succeeded)
      ]_vars

\* ---------------------------------------------------- reconnection properties
\* a connection has ended and the loop is in the pause that follows
ConnectionEnded ==
    wsm.lastEnd # "none" /\ wsm.pc \in {"sleep_reconnect", "sleep_error"}

\* C20: WebSocketManager.start never terminates, and after every connection
\* end (error, exception or clean close of run_forever) it eventually
\* acquires a listen key and opens a new connection, provided the gateway
\* eventually returns a listen key.
C20_Reconnects ==
    /\ [](wsm.pc # "done")
    /\ (ConnectionEnded ~> (wsm.pc = "running" /\ wsm.listen_key = "key"))

\* C21: when the exchange reports during renewal that the listen key has
\* expired (-1125), a new listen key is acquired and the stream is reconnected
\* with it, without waiting for the current connection to fail on its own
\* (the connection is under no obligation to end: ConnectionEnd is not fair).
C21_ExpiryReconnects ==
    wsm.expired ~> (wsm.pc = "running" /\ ~wsm.expired)

\* C27: when the gateway keeps failing to return a listen key, start stops
\* retrying after finitely many attempts.
C27_BoundedKeyRetry == <>[](wsm.pc \notin {"top", "sleep_nokey", "sleep_error"})

\* C20 witness: a connection ended with an exception raised by run_forever
\* and a later connection is running
C20_Witness ==
    wsm.pc = "running" /\ wsm.conns >= 2 /\ wsm.lastEnd = "exception"

\* C39: at most one listen-key renewal task is running at any time: over any
\* number of disconnect/reconnect cycles of WebSocketManager.start, the number
\* of concurrently live keep_listen_key_alive threads never exceeds one.
C39_OneKeepAlive == wsm.ka <= 1

\* --------------------------------------------------- submission properties
\* C13: for every entry submission, through handle_new_position_order or
\* handle_add_position_order, a registry record with status PENDING exists
\* under the order's client id when the gateway place-order call is made.
C13_RecordBeforeGateway ==
    [][lastOp'.op \in {"submit_gateway", "submit_add"} =>
          (lastOp'.id \in DOMAIN orders /\ orders[lastOp'.id].status = "PENDING")
      ]_vars

\* C14: when the gateway accepts an entry submission, then on return from
\* the submit operation the record written before the call has status NEW
\* (or a status a stream event has advanced it to), no longer PENDING.
C14_AcceptedIsNew ==
    [][(lastOp'.op = "submit_gateway" /\ lastOp'.path = "success"
        /\ lastOp'.id \in DOMAIN orders) =>
          (lastOp'.id \in DOMAIN orders' /\ orders'[lastOp'.id].status # "PENDING")
      ]_vars

\* C15: when the gateway place-order call fails for an entry submission, the
\* submit operation returns an error result, the record written before the
\* call is retained, and its status is FAILED.
C15_RejectedIsFailed ==
    [][(lastOp'.op = "submit_gateway" /\ lastOp'.id \in DOMAIN orders
        /\ ~(lastOp'.id \in DOMAIN exch' /\ exch'[lastOp'.id] = "NEW")) =>
          /\ lastOp'.path = "error"
          /\ lastOp'.id \in DOMAIN orders'
          /\ orders'[lastOp'.id].status = "FAILED"
      ]_vars

\* ------------------------------------------------------ sweeper properties
\* C11: in a sweep at time now a record is selected for cancellation if and
\* only if its id has the system prefix and no 'T'/'S' suffix, its status is
\* NEW or PARTIALLY_FILLED, and now - entry_time is strictly greater than
\* timeout_minutes * 60 + 30 seconds.
C11_TimeoutEligibility ==
    swCheck.done =>
        (swCheck.selected <=>
            /\ swCheck.id[1] = SystemPrefix
            /\ Last(swCheck.id) \notin {"T", "S"}
            /\ swCheck.status \in {"NEW", "PARTIALLY_FILLED"}
            /\ swCheck.age > ORDER_TIMEOUT_MINUTES * 60 + 30)

TimedOutWithExits ==
    /\ lastOp'.op = "sweep" /\ lastOp'.id \in DOMAIN orders
    /\ IsOpen(exch[lastOp'.id])
    /\ orders[lastOp'.id].tp_client_id # NoId
    /\ orders[lastOp'.id].sl_client_id # NoId

TimedOutOpen ==
    /\ lastOp'.op = "sweep" /\ lastOp'.id \in DOMAIN orders
    /\ IsOpen(exch[lastOp'.id])

C23_UniqueIds == gen.n >= 2 => gen.id # gen.prevId

\* C24: every client order id generated for an entry submission, for any
\* strategy name, carries the prefix 'V69_' that the stream handler and the
\* sweeper require.
C24_SystemPrefix == gen.n >= 1 => HasSystemPrefix(gen.id)

\* the elements of a sequence
Range(q) == {q[i] : i \in DOMAIN q}

\* C22: an exception raised while one stream event is processed, or while one
\* timed-out order is canceled, never leaves on_message or the sweep loop:
\* both threads stay alive, the next stream event is handled, and when a
\* sweep is over _cancel_timeout_order has been called for every order of
\* timeout_orders.
C22_FailureIsolation ==
    /\ iso.stream = "alive" /\ iso.sweeper # "dead"
    /\ iso.handled \subseteq Range(iso.given)
    /\ (iso.sweeper = "idle" => iso.handled = Range(iso.given))

\* C22 witness: an event was handled after one that raised, and a sweep of
\* two orders is over in which the first order raised
C22_Witness ==
    /\ iso.afterRaise /\ iso.lastEvent = "ok"
    /\ iso.sweeper = "idle" /\ Len(iso.given) = 2
    /\ iso.faulted = {iso.given[1]}

\* ------------------------------------------- take-profit offset properties
\* C36: every take-profit and stop-loss order placed for an entry has the
\* side opposite to the entry's side; with a positive offset, for a BUY
\* entry stop-loss price <= cost basis <= take-profit price, and for a SELL
\* entry take-profit price <= cost basis <= stop-loss price.
C36_ExitDirection ==
    tpCalc.done =>
        /\ tpCalc.tp_side # tpCalc.side /\ tpCalc.sl_side # tpCalc.side
        /\ tpCalc.side = "BUY" =>
              tpCalc.sl_price <= tpCalc.basis /\ tpCalc.basis <= tpCalc.tp_price
        /\ tpCalc.side = "SELL" =>
              tpCalc.tp_price <= tpCalc.basis /\ tpCalc.basis <= tpCalc.sl_price

\* no input considered is rounded at a half
OffHalves ==
    tpCalc.done =>
        \A x \in {tpCalc.basis + tpCalc.offset, tpCalc.basis - tpCalc.offset,
                  tpCalc.basis + sl_price_offset(tpCalc.basis),
                  tpCalc.basis - sl_price_offset(tpCalc.basis)} :
            2 * (x % RoundUnit(tpCalc.precision)) # RoundUnit(tpCalc.precision)

\* a number is on hand as ATR
NumericAtrPresent(atr) == atr \notin {None, NotNumeric}

\* C25: _calculate_tp_offset uses the explicit offset when one is present;
\* otherwise ATR x multiplier when a numeric ATR is present; otherwise cost
\* basis x default percentage; a lower-priority source is never used when a
\* higher-priority one is available.
C25_OffsetPriority ==
    tpCalc.done =>
        IF tpCalc.explicit # None
        THEN tpCalc.offset = tpCalc.explicit
        ELSE IF NumericAtrPresent(tpCalc.atr)
        THEN /\ tpCalc.offset # tpCalc.basis * TP_PERCENTAGE
             /\ (tpCalc.atr > 0 /\ tpCalc.mult # None)
                   => tpCalc.offset = tpCalc.atr * tpCalc.mult
        ELSE tpCalc.offset = tpCalc.basis * TP_PERCENTAGE

\* C7: the offset applied to the cost basis is at least
\* basis * MIN_TP_PROFIT_PERCENTAGE.
C7_MinProfitFloor ==
    tpCalc.done => tpCalc.offset >= tpCalc.basis * MIN_TP_PROFIT_PERCENTAGE

\* --------------------------------------------- position tracker properties
BothReads == avgCall.done /\ avgCall.first # Absent /\ avgCall.second # Absent
Incoming == avgCall.new_quantity
\* the result is ok with total = existing + incoming and the weighted average
\* of the two prices
IsWeighted(out, existing) ==
    /\ ~out.raised /\ out.ok
    /\ out.total = existing + Incoming
    /\ out.num * (existing + Incoming) =
          (existing * avgCall.avg_price + Incoming * avgCall.new_price) * out.den
\* the call's inputs make the doubling check or the total clamp replace the
\* quantity q read from the exchange
Replaced(q) ==
    \/ q > 4 * Incoming
    \/ /\ avgCall.last_amt # NoMemory /\ avgCall.recent
       /\ 10 * q > 18 * avgCall.last_amt /\ q > 2 * Incoming

\* C8 as stated: whenever both reads report the same quantity, the result is
\* ok, total = existing + incoming, average = weighted average.
C8_AverageCost ==
    (BothReads /\ avgCall.first = avgCall.second /\ Parses(avgCall.new_price))
        => IsWeighted(avgCall.out, avgCall.second)

\* C8 amended: the same, provided the existing quantity is at most four times
\* the incoming one and the doubling check against the remembered amount does
\* not fire.
C8_AverageCostUnlessReplaced ==
    (BothReads /\ avgCall.first = avgCall.second /\ Parses(avgCall.new_price)
     /\ ~Replaced(avgCall.second))
        => IsWeighted(avgCall.out, avgCall.second)

\* C8 witness: existing 4 units @ 100 plus incoming 2 units @ 130 gave
\* (110, 6 units, true)
C8_Witness ==
    /\ BothReads /\ avgCall.first = 4 /\ avgCall.second = 4
    /\ avgCall.avg_price = 100 /\ avgCall.new_price = 130 /\ Incoming = 2
    /\ avgCall.out.ok /\ avgCall.out.total = 6
    /\ avgCall.out.num = 110 * avgCall.out.den

IsFallback(out) ==
    /\ ~out.raised /\ ~out.ok /\ out.total = Incoming
    /\ out.num = avgCall.new_price * out.den

ExistingUsed(out) == out.total - Incoming

\* C10 as stated: when the two reads report different quantities the result
\* is ok and the existing quantity used is the smaller read.
C10_SmallerRead ==
    (BothReads /\ avgCall.first # avgCall.second /\ Parses(avgCall.new_price))
        => /\ ~avgCall.out.raised /\ avgCall.out.ok
           /\ ExistingUsed(avgCall.out) = Min(avgCall.first, avgCall.second)

\* C10 amended: the result is ok; the smaller read is used when the reads
\* differ by more than 0.001, the second read otherwise - in both cases unless
\* the doubling check or the total clamp replaces that quantity.
C10_SmallerReadBeyondTolerance ==
    (BothReads /\ avgCall.first # avgCall.second /\ Parses(avgCall.new_price))
        => LET q == IF Abs(avgCall.first - avgCall.second) > 2
                    THEN Min(avgCall.first, avgCall.second) ELSE avgCall.second
           IN /\ ~avgCall.out.raised /\ avgCall.out.ok
              /\ ~Replaced(q) => IsWeighted(avgCall.out, q)

\* C10 witness: reads of 4 and 8 units were reconciled to 4 units
C10_Witness ==
    /\ BothReads /\ avgCall.first = 4 /\ avgCall.second = 8
    /\ Incoming = 2 /\ Parses(avgCall.new_price)
    /\ avgCall.out.ok /\ ExistingUsed(avgCall.out) = 4

====
